---- MODULE Spec2Model ----
(***************************************************************************)
(* Model of genartzcom/generator:                                          *)
(*   - NFTCodeAnalyzer (v2/p5.analyzer): static analysis of a p5 sketch    *)
(*   - NFTMetadataHandler (trait.generator.ts): metadata resolution        *)
(*                                                                         *)
(* A sketch source is represented by what acorn.parse makes of it: either  *)
(* a parse failure, or the sequence of the nodes the analyzer's visitors   *)
(* look at, in the order acorn-walk visits them.  The position of a node   *)
(* in that sequence stands for its source location (node.loc.start).       *)
(***************************************************************************)
EXTENDS Integers, Sequences, FiniteSets, TLC

\* ------------------------------------------------------------------ bounds
MaxStmts == 3        \* nodes of interest in one analysed source
ReuseLen == 1        \* nodes per source when one analyzer serves two calls
MaxCollections == 2  \* collections in one generateFormaCollectionCodes call
MaxChars == 3        \* characters of a text given to formatValue
MaxItems == 2        \* collections, TraitDatas or chunks given to a generator method
MaxText == 4         \* characters of a text given to _escapeString
MaxParts == 1        \* collections, TraitDatas and chunks of an analysis to assemble

\* ------------------------------------------------------------ JS values
\* A JavaScript value: null, a string, or a number n/d (d > 1: fractional).
JNull == [t |-> "null", s |-> "", n |-> 0, d |-> 1]
JStr(x) == [t |-> "string", s |-> x, n |-> 0, d |-> 1]
JNum(a, b) == [t |-> "number", s |-> "", n |-> a, d |-> b]

\* typeof v
TypeOf(v) == IF v.t = "null" THEN "object" ELSE v.t

\* JS truthiness of a value (for `x || null`)
Truthy(v) ==
  CASE v.t = "null" -> FALSE
    [] v.t = "string" -> v.s # ""
    [] OTHER -> v.n # 0

\* --------------------------------------------------------------- AST nodes
\* First argument of a call: a Literal node, some other expression, or none.
Lit(v) == [type |-> "Literal", value |-> v]
Ident == [type |-> "Identifier", value |-> JNull]
NoArg == [type |-> "none", value |-> JNull]

TraitTypes == {"asInt", "asString"}

\* var <name> = FormaCollection(<arg>)
DeclNode(name, arg) ==
  [kind |-> "decl", name |-> name, arg |-> arg, ttype |-> "", inSetup |-> FALSE]
\* <name>.metadata(<arg>).<ttype>()
TraitNode(name, arg, ttype) ==
  [kind |-> "trait", name |-> name, arg |-> arg, ttype |-> ttype, inSetup |-> FALSE]
\* <name>.useToken(<arg>), inside or outside function setup
UseTokenNode(name, arg, inSetup) ==
  [kind |-> "useToken", name |-> name, arg |-> arg, ttype |-> "", inSetup |-> inSetup]
AddressArgs == {NoArg, Ident, Lit(JStr("0xAA")), Lit(JStr("")), Lit(JNull)}
KeyArgs == {NoArg, Lit(JStr("Color"))}
TokenArgs == {NoArg, Ident, Lit(JNum(3, 1)), Lit(JNum(5, 1)), Lit(JNum(7, 2)), Lit(JStr("3"))}

\* Collection A occurs in every shape; a second collection B in one shape of
\* each kind, so that sources with two collections, and references to a
\* collection that is not declared, exist.
Nodes ==
  {DeclNode("A", a) : a \in AddressArgs}
    \cup {DeclNode("B", Lit(JStr("0xBB")))}
    \cup {TraitNode("A", a, ty) : a \in KeyArgs, ty \in TraitTypes}
    \cup {TraitNode("B", Lit(JStr("Color")), "asString")}
    \cup {UseTokenNode("A", a, TRUE) : a \in TokenArgs}
    \cup {UseTokenNode("B", Lit(JNum(3, 1)), TRUE)}
    \cup {UseTokenNode("A", Lit(JNum(3, 1)), FALSE)}

\* What acorn.parse does with a source text: it throws, or yields the nodes.
Unparsable == [parses |-> FALSE, body |-> <<>>]
Parsed(body) == [parses |-> TRUE, body |-> body]

\* --------------------------------------------------------------- analyzer
EmptyFields == [collections |-> <<>>, traits |-> <<>>, issues |-> <<>>, tokenIndexes |-> <<>>]

\* mutant: reset forgets the issues list
resetKeepingIssues(st) == [EmptyFields EXCEPT !.issues = st.issues]

reset(st) == EmptyFields

addIssue(st, issue) == [st EXCEPT !.issues = Append(@, issue)]

Warning(msg, loc) == [type |-> "warning", message |-> msg, location |-> loc]
ErrorIssue(msg) == [type |-> "error", message |-> msg, location |-> 0]

\* parseCode: [threw, ast, message]
parseCode(code) ==
  IF code.parses
    THEN [threw |-> FALSE, ast |-> code.body, message |-> <<>>]
    ELSE [threw |-> TRUE, ast |-> <<>>, message |-> <<"Failed to parse code">>]

isFormaCollectionCall(node) == node.kind = "decl"

\* mutant: only an absent argument is reported, a non-literal one is not
createCollectionAbsentOnly(st, node, loc) ==
  LET name == node.name
      firstArg == node.arg
      address == IF firstArg.type = "Literal" THEN firstArg.value ELSE JNull
  IN  [ret |-> [name |-> name, address |-> address, sourceLocation |-> loc],
       st |-> IF firstArg.type = "none"
                THEN addIssue(st, Warning(<<"Collection", name, "is missing an address">>, loc))
                ELSE st]

\* createCollection: the collection, and the fields after its addIssue
createCollection(st, node, loc) ==
  LET name == node.name
      firstArg == node.arg
      address == IF firstArg.type = "Literal" THEN firstArg.value ELSE JNull
  IN  [ret |-> [name |-> name, address |-> address, sourceLocation |-> loc],
       st |-> IF address = JNull
                THEN addIssue(st, Warning(<<"Collection", name, "is missing an address">>, loc))
                ELSE st]

RECURSIVE extractCollectionsFrom(_, _, _)
extractCollectionsFrom(st, ast, i) ==
  IF i > Len(ast) THEN st
  ELSE IF isFormaCollectionCall(ast[i])
    THEN LET r == createCollection(st, ast[i], i)
         IN  extractCollectionsFrom([r.st EXCEPT !.collections = Append(@, r.ret)], ast, i + 1)
    ELSE extractCollectionsFrom(st, ast, i + 1)

extractCollections(st, ast) == extractCollectionsFrom(st, ast, 1)

isTraitTypeCall(node) == node.kind = "trait" /\ node.ttype \in {"asInt", "asString", "asFloat"}

isMetadataCall(node) == node.kind = "trait"

NoTrait == [collection |-> "", key |-> JNull, type |-> "", sourceLocation |-> 0]

\* extractTrait: the trait (or NoTrait for null), and the fields after its addIssue
extractTrait(st, node, loc) ==
  IF ~isTraitTypeCall(node) THEN [ret |-> NoTrait, st |-> st]
  ELSE IF ~isMetadataCall(node) THEN [ret |-> NoTrait, st |-> st]
  ELSE
    LET collectionName == node.name
        keyArg == node.arg
        key == IF keyArg.type = "Literal" THEN keyArg.value ELSE JNull
    IN  [ret |-> [collection |-> collectionName, key |-> key, type |-> node.ttype,
                  sourceLocation |-> loc],
         st |-> IF key = JNull
                  THEN addIssue(st, Warning(<<"Trait in collection", collectionName,
                                              "is missing a key">>, loc))
                  ELSE st]

\* mutant: the trait type is left out of the comparison
isDuplicateTraitIgnoringType(st, trait) ==
  \E k \in 1..Len(st.traits) :
    /\ st.traits[k].collection = trait.collection
    /\ st.traits[k].key = trait.key

isDuplicateTrait(st, trait) ==
  \E k \in 1..Len(st.traits) :
    /\ st.traits[k].collection = trait.collection
    /\ st.traits[k].key = trait.key
    /\ st.traits[k].type = trait.type

RECURSIVE extractTraitsFrom(_, _, _)
extractTraitsFrom(st, ast, i) ==
  IF i > Len(ast) THEN st
  ELSE
    LET r == extractTrait(st, ast[i], i)
    IN  IF r.ret # NoTrait /\ ~isDuplicateTrait(r.st, r.ret)
          THEN extractTraitsFrom([r.st EXCEPT !.traits = Append(@, r.ret)], ast, i + 1)
          ELSE extractTraitsFrom(r.st, ast, i + 1)

extractTraits(st, ast) == extractTraitsFrom(st, ast, 1)

isUseTokenCall(node) == node.kind = "useToken" /\ node.arg.type # "none"

\* extractTokenId: the numeric literal's value, else null
extractTokenId(arg) ==
  IF arg.type = "Literal" /\ TypeOf(arg.value) = "number" THEN arg.value ELSE JNull

collectionExists(st, name) == \E k \in 1..Len(st.collections) : st.collections[k].name = name

NoTokenIndex == [collection |-> "", tokenId |-> JNull]

\* mutant: a token id that is no number is given up without a warning
extractTokenIndexSilent(st, node, loc) ==
  LET collection == node.name
      tokenId == extractTokenId(node.arg)
      st1 == IF ~collectionExists(st, collection)
               THEN addIssue(st, Warning(<<"useToken references non-existent collection",
                                           collection>>, loc))
               ELSE st
  IN  IF TypeOf(tokenId) # "number"
        THEN [ret |-> NoTokenIndex, st |-> st1]
        ELSE [ret |-> [collection |-> collection, tokenId |-> tokenId], st |-> st1]

\* extractTokenIndex: the token index (or NoTokenIndex for null), and the fields
\* after its addIssue calls
extractTokenIndex(st, node, loc) ==
  LET collection == node.name
      tokenId == extractTokenId(node.arg)
      st1 == IF ~collectionExists(st, collection)
               THEN addIssue(st, Warning(<<"useToken references non-existent collection",
                                           collection>>, loc))
               ELSE st
  IN  IF TypeOf(tokenId) # "number"
        THEN [ret |-> NoTokenIndex,
              st |-> addIssue(st1, Warning(<<"useToken for collection", collection,
                                             "has non-numeric token ID">>, loc))]
        ELSE [ret |-> [collection |-> collection, tokenId |-> tokenId], st |-> st1]

\* mutant: the whole program is walked, not the setup function alone
RECURSIVE extractTokenUsagesEverywhere(_, _, _)
extractTokenUsagesEverywhere(st, ast, i) ==
  IF i > Len(ast) THEN st
  ELSE IF isUseTokenCall(ast[i])
    THEN LET r == extractTokenIndex(st, ast[i], i)
         IN  IF r.ret # NoTokenIndex
               THEN extractTokenUsagesEverywhere([r.st EXCEPT !.tokenIndexes = Append(@, r.ret)],
                                                 ast, i + 1)
               ELSE extractTokenUsagesEverywhere(r.st, ast, i + 1)
    ELSE extractTokenUsagesEverywhere(st, ast, i + 1)

\* the nodes walk.simple(setupFunction, ...) visits: those inside function setup
RECURSIVE extractTokenUsagesFrom(_, _, _)
extractTokenUsagesFrom(st, ast, i) ==
  IF i > Len(ast) THEN st
  ELSE IF ast[i].inSetup /\ isUseTokenCall(ast[i])
    THEN LET r == extractTokenIndex(st, ast[i], i)
         IN  IF r.ret # NoTokenIndex
               THEN extractTokenUsagesFrom([r.st EXCEPT !.tokenIndexes = Append(@, r.ret)],
                                           ast, i + 1)
               ELSE extractTokenUsagesFrom(r.st, ast, i + 1)
    ELSE extractTokenUsagesFrom(st, ast, i + 1)

extractTokenUsages(st, ast) == extractTokenUsagesFrom(st, ast, 1)

RECURSIVE validateTraits(_, _)
validateTraits(st, k) ==
  IF k > Len(st.traits) THEN st
  ELSE IF ~collectionExists(st, st.traits[k].collection)
    THEN validateTraits(addIssue(st, Warning(<<"Trait references non-existent collection",
                                               st.traits[k].collection>>,
                                             st.traits[k].sourceLocation)), k + 1)
    ELSE validateTraits(st, k + 1)

RECURSIVE validateTokenIndexes(_, _)
validateTokenIndexes(st, k) ==
  IF k > Len(st.tokenIndexes) THEN st
  ELSE IF ~collectionExists(st, st.tokenIndexes[k].collection)
    THEN validateTokenIndexes(
           addIssue(st, Warning(<<"Token usage references non-existent collection",
                                  st.tokenIndexes[k].collection>>, 0)), k + 1)
    ELSE validateTokenIndexes(st, k + 1)

\* mutant: the traits are not validated
validateDataTokensOnly(st) == validateTokenIndexes(st, 1)

validateData(st) == validateTokenIndexes(validateTraits(st, 1), 1)

\* ---- groupTraitsByCollection: traitDataMap is an insertion-ordered Map
MapHas(m, name) == \E k \in 1..Len(m) : m[k].collection = name
MapIndex(m, name) == CHOOSE k \in 1..Len(m) : m[k].collection = name

\* this.collections.find(c => c.name === name)?.address || null
findAddress(st, name) ==
  IF collectionExists(st, name)
    THEN LET k == CHOOSE j \in 1..Len(st.collections) :
                    /\ st.collections[j].name = name
                    /\ \A h \in 1..(j - 1) : st.collections[h].name # name
             a == st.collections[k].address
         IN  IF Truthy(a) THEN a ELSE JNull
    ELSE JNull

NewTraitData(st, name) ==
  [collection |-> name, address |-> findAddress(st, name), traits |-> <<>>,
   tokenIndexes |-> <<>>]

Includes(seq, x) == \E k \in 1..Len(seq) : seq[k] = x

RECURSIVE groupTraits(_, _, _)
groupTraits(st, m, k) ==
  IF k > Len(st.traits) THEN m
  ELSE
    LET trait == st.traits[k]
        m1 == IF MapHas(m, trait.collection) THEN m
              ELSE Append(m, NewTraitData(st, trait.collection))
        j == MapIndex(m1, trait.collection)
    IN  groupTraits(st, [m1 EXCEPT ![j].traits = Append(@, trait)], k + 1)

RECURSIVE groupTokenIndexes(_, _, _)
groupTokenIndexes(st, m, k) ==
  IF k > Len(st.tokenIndexes) THEN m
  ELSE
    LET tokenIndex == st.tokenIndexes[k]
        m1 == IF MapHas(m, tokenIndex.collection) THEN m
              ELSE Append(m, NewTraitData(st, tokenIndex.collection))
        j == MapIndex(m1, tokenIndex.collection)
    IN  groupTokenIndexes(st,
          IF Includes(m1[j].tokenIndexes, tokenIndex.tokenId) THEN m1
          ELSE [m1 EXCEPT ![j].tokenIndexes = Append(@, tokenIndex.tokenId)],
          k + 1)

groupTraitsByCollection(st) == groupTokenIndexes(st, groupTraits(st, <<>>, 1), 1)

\* ---- analyze
AnalysisResult(st) ==
  [collections |-> st.collections, traits |-> st.traits,
   data |-> groupTraitsByCollection(st), issues |-> st.issues,
   tokenIndexes |-> st.tokenIndexes]

\* mutant: the catch clause records no issue
analyzeCatchSilent(st, message) == [threw |-> FALSE, st |-> st, result |-> AnalysisResult(st)]

\* the catch clause of analyze
analyzeCatch(st, message) ==
  LET st1 == addIssue(st, ErrorIssue(<<"Analysis failed">> \o message))
  IN  [threw |-> FALSE, st |-> st1, result |-> AnalysisResult(st1)]

\* analyze(code) on an analyzer whose fields are st: whether an exception
\* leaves the method, the fields afterwards, and the returned result
analyze(st, code) ==
  LET st0 == reset(st)
      parsed == parseCode(code)
  IN  IF parsed.threw THEN analyzeCatch(st0, parsed.message)
      ELSE
        LET st1 == extractCollections(st0, parsed.ast)
            st2 == extractTraits(st1, parsed.ast)
            st3 == extractTokenUsages(st2, parsed.ast)
            st4 == validateData(st3)
        IN  [threw |-> FALSE, st |-> st4, result |-> AnalysisResult(st4)]

\* analyzeCode(code): a new analyzer, one analyze call
analyzeCode(code) == analyze(EmptyFields, code)

\* ------------------------------------------------------- metadata handler
JUndefined == [t |-> "undefined", s |-> "", n |-> 0, d |-> 1]

\* ---- values met in metadata, and the conversions formatValue applies
\* A value of a metadata attribute or a formatted value: null, undefined, a
\* boolean, a number (n/d in lowest terms; d = 0: NaN when n = 0, else the
\* infinity of n's sign), a string (its characters), or an object.  An object
\* is known by the text String() gives for it; throws = TRUE is an object that
\* has no callable toString returning a primitive, e.g. JSON {"toString": 0}.
VNull == [t |-> "null", chars |-> <<>>, n |-> 0, d |-> 1, throws |-> FALSE]
VUndefined == [t |-> "undefined", chars |-> <<>>, n |-> 0, d |-> 1, throws |-> FALSE]
VBool(b) == [t |-> "boolean", chars |-> <<>>, n |-> IF b THEN 1 ELSE 0, d |-> 1, throws |-> FALSE]
VStr(chars) == [t |-> "string", chars |-> chars, n |-> 0, d |-> 1, throws |-> FALSE]
VObject(chars) == [t |-> "object", chars |-> chars, n |-> 0, d |-> 1, throws |-> FALSE]
VOpaque == [t |-> "object", chars |-> <<>>, n |-> 0, d |-> 1, throws |-> TRUE]
VNaN == [t |-> "number", chars |-> <<>>, n |-> 0, d |-> 0, throws |-> FALSE]
VInfinity(sign) == [t |-> "number", chars |-> <<>>, n |-> sign, d |-> 0, throws |-> FALSE]

Abs(i) == IF i < 0 THEN 0 - i ELSE i

RECURSIVE GCD(_, _)
GCD(a, b) == IF b = 0 THEN a ELSE GCD(b, a % b)

\* the number a/b (b > 0)
VNum(a, b) ==
  LET g == GCD(Abs(a), b)
  IN  [t |-> "number", chars |-> <<>>, n |-> a \div g, d |-> b \div g, throws |-> FALSE]

RECURSIVE Pow10(_)
Pow10(k) == IF k = 0 THEN 1 ELSE 10 * Pow10(k - 1)

\* the characters of a text written in the model
Word(w) ==
  CASE w = "null" -> <<"n", "u", "l", "l">>
    [] w = "undefined" -> <<"u", "n", "d", "e", "f", "i", "n", "e", "d">>
    [] w = "true" -> <<"t", "r", "u", "e">>
    [] w = "false" -> <<"f", "a", "l", "s", "e">>
    [] w = "NaN" -> <<"N", "a", "N">>
    [] w = "Infinity" -> <<"I", "n", "f", "i", "n", "i", "t", "y">>
    [] w = "[object Object]" ->
         <<"[", "o", "b", "j", "e", "c", "t", " ", "O", "b", "j", "e", "c", "t", "]">>
    [] w = "Blue" -> <<"B", "l", "u", "e">>

DecimalDigits == <<"0", "1", "2", "3", "4", "5", "6", "7", "8", "9">>
HexLetters == <<"a", "b", "c", "d", "e", "f">>
HexCapitals == <<"A", "B", "C", "D", "E", "F">>

\* the value of c as a digit, 99 when c is no digit of any radix up to 16
DigitValue(c) ==
  IF \E i \in 1..10 : DecimalDigits[i] = c
    THEN (CHOOSE i \in 1..10 : DecimalDigits[i] = c) - 1
  ELSE IF \E i \in 1..6 : HexLetters[i] = c \/ HexCapitals[i] = c
    THEN (CHOOSE i \in 1..6 : HexLetters[i] = c \/ HexCapitals[i] = c) + 9
  ELSE 99

\* the decimal digits of the natural number i
RECURSIVE NatDigits(_)
NatDigits(i) ==
  IF i < 10 THEN <<DecimalDigits[i + 1]>>
  ELSE Append(NatDigits(i \div 10), DecimalDigits[(i % 10) + 1])

\* the digits after the decimal point of r/d (0 <= r < d, d a divisor of a power of 10)
RECURSIVE FractionDigits(_, _)
FractionDigits(r, d) ==
  IF r = 0 THEN <<>>
  ELSE <<DecimalDigits[((10 * r) \div d) + 1]>> \o FractionDigits((10 * r) % d, d)

\* Number::toString for the numbers written without an exponent
NumberToString(v) ==
  IF v.d = 0
    THEN IF v.n = 0 THEN Word("NaN")
         ELSE (IF v.n < 0 THEN <<"-">> ELSE <<>>) \o Word("Infinity")
    ELSE (IF v.n < 0 THEN <<"-">> ELSE <<>>)
         \o NatDigits(Abs(v.n) \div v.d)
         \o (IF Abs(v.n) % v.d = 0 THEN <<>>
             ELSE <<".">> \o FractionDigits(Abs(v.n) % v.d, v.d))

\* String(value) / ToString(value): [threw, chars]
ToStringOf(value) ==
  CASE value.t = "null" -> [threw |-> FALSE, chars |-> Word("null")]
    [] value.t = "undefined" -> [threw |-> FALSE, chars |-> Word("undefined")]
    [] value.t = "boolean" ->
         [threw |-> FALSE, chars |-> IF value.n = 1 THEN Word("true") ELSE Word("false")]
    [] value.t = "number" -> [threw |-> FALSE, chars |-> NumberToString(value)]
    [] value.t = "string" -> [threw |-> FALSE, chars |-> value.chars]
    [] value.t = "object" -> [threw |-> value.throws, chars |-> value.chars]

WhiteSpace == {" ", "\t", "\n"}

\* the first position at or after k that holds no white space
RECURSIVE SkipWhiteSpace(_, _)
SkipWhiteSpace(chars, k) ==
  IF k <= Len(chars) /\ chars[k] \in WhiteSpace THEN SkipWhiteSpace(chars, k + 1) ELSE k

\* the number of digits of the radix that stand at position k and after it
RECURSIVE DigitRun(_, _, _)
DigitRun(chars, k, radix) ==
  IF k <= Len(chars) /\ DigitValue(chars[k]) < radix
    THEN 1 + DigitRun(chars, k + 1, radix)
    ELSE 0

\* the number written by the len digits that start at position k
RECURSIVE DigitsValue(_, _, _, _)
DigitsValue(chars, k, len, radix) ==
  IF len = 0 THEN 0
  ELSE radix * DigitsValue(chars, k, len - 1, radix) + DigitValue(chars[k + len - 1])

\* whether word stands at position k of chars
StartsWith(chars, k, word) ==
  /\ k + Len(word) - 1 <= Len(chars)
  /\ \A i \in 1..Len(word) : chars[k + i - 1] = word[i]

\* parseInt(string) of the built-in library, no radix given
ParseIntFrom(chars, start) ==
  LET signed == start <= Len(chars) /\ chars[start] \in {"+", "-"}
      sign == IF signed /\ chars[start] = "-" THEN 0 - 1 ELSE 1
      k == IF signed THEN start + 1 ELSE start
      hex == StartsWith(chars, k, <<"0", "x">>) \/ StartsWith(chars, k, <<"0", "X">>)
      radix == IF hex THEN 16 ELSE 10
      from == IF hex THEN k + 2 ELSE k
      len == DigitRun(chars, from, radix)
  IN  IF len = 0 THEN VNaN ELSE VNum(sign * DigitsValue(chars, from, len, radix), 1)

ParseIntOf(chars) == ParseIntFrom(chars, SkipWhiteSpace(chars, 1))

\* parseFloat(string) of the built-in library, in three steps: the exponent
\* from position e on, after a mantissa of intLen and fracLen digits at k
ParseFloatExponent(chars, sign, k, intLen, fracLen, e) ==
  LET hasE == e <= Len(chars) /\ chars[e] \in {"e", "E"}
      expSigned == hasE /\ e + 1 <= Len(chars) /\ chars[e + 1] \in {"+", "-"}
      expFrom == IF expSigned THEN e + 2 ELSE e + 1
      expLen == IF hasE THEN DigitRun(chars, expFrom, 10) ELSE 0
      exponent == (IF expSigned /\ chars[e + 1] = "-" THEN 0 - 1 ELSE 1)
                    * DigitsValue(chars, expFrom, expLen, 10)
      mantissa == DigitsValue(chars, k, intLen, 10) * Pow10(fracLen)
                    + DigitsValue(chars, k + intLen + 1, fracLen, 10)
      scale == fracLen - exponent
  IN  IF StartsWith(chars, k, Word("Infinity")) THEN VInfinity(sign)
      ELSE IF intLen = 0 /\ fracLen = 0 THEN VNaN
      ELSE IF scale >= 0 THEN VNum(sign * mantissa, Pow10(scale))
      ELSE VNum(sign * mantissa * Pow10(0 - scale), 1)

\* the fraction after intLen digits at k
ParseFloatFraction(chars, sign, k, intLen) ==
  LET dot == k + intLen <= Len(chars) /\ chars[k + intLen] = "."
      fracLen == IF dot THEN DigitRun(chars, k + intLen + 1, 10) ELSE 0
  IN  ParseFloatExponent(chars, sign, k, intLen, fracLen,
                         k + intLen + (IF dot THEN 1 + fracLen ELSE 0))

\* the sign and the digits from start on
ParseFloatFrom(chars, start) ==
  LET signed == start <= Len(chars) /\ chars[start] \in {"+", "-"}
      sign == IF signed /\ chars[start] = "-" THEN 0 - 1 ELSE 1
      k == IF signed THEN start + 1 ELSE start
  IN  ParseFloatFraction(chars, sign, k, DigitRun(chars, k, 10))

ParseFloatOf(chars) == ParseFloatFrom(chars, SkipWhiteSpace(chars, 1))

\* JS truthiness of a number (for `x || 0`)
NumberTruthy(v) == v.n # 0

\* ---- metadata documents
\* The field `attributes` (or `traits`) of a metadata object: absent, an array
\* of elements, or a flat object of entries.  An array element is null or an
\* object {trait_type, name, value}; an entry of a flat object has its key in
\* trait_type.
AbsentField == [shape |-> "absent", items |-> <<>>]
ArrayField(items) == [shape |-> "array", items |-> items]
ObjectField(items) == [shape |-> "object", items |-> items]
Attr(traitType, name, value) ==
  [isNull |-> FALSE, trait_type |-> traitType, name |-> name, value |-> value]
NullElement == [isNull |-> TRUE, trait_type |-> JUndefined, name |-> JUndefined, value |-> VUndefined]

\* A metadata value: null, a string (its characters), or an object with the
\* fields attributes and traits and its other top-level entries.
MNull == [t |-> "null", chars |-> <<>>, attributes |-> AbsentField, traits |-> AbsentField,
          top |-> <<>>]
MString(chars) == [t |-> "string", chars |-> chars, attributes |-> AbsentField,
                   traits |-> AbsentField, top |-> <<>>]
MObject(attributes, traitsField, top) ==
  [t |-> "object", chars |-> <<>>, attributes |-> attributes, traits |-> traitsField,
   top |-> top]

\* JS truthiness of a metadata value
MTruthy(m) == IF m.t = "null" THEN FALSE ELSE IF m.t = "string" THEN m.chars # <<>> ELSE TRUE

Docs ==
  {MObject(ArrayField(<<Attr(JStr("Color"), JUndefined, VStr(Word("Blue")))>>), AbsentField, <<>>),
   MObject(ArrayField(<<NullElement>>), AbsentField, <<>>),
   MObject(AbsentField, AbsentField, <<[key |-> "Color", value |-> VStr(<<"7">>)]>>),
   MObject(ArrayField(<<Attr(JUndefined, JStr("Color"), VOpaque)>>), AbsentField, <<>>)}

\* ---- what the contract and the network answer
\* getTokenMetadata: the call throws, or returns a text: inline JSON of a
\* document, text that starts with "{" and is no JSON, a data:<mime>;base64,
\* URI whose payload is JSON of a document or is no JSON, a text that contains
\* "base64" and is no such URI, or any other text.
Throws == [threw |-> TRUE, form |-> "", doc |-> MNull]
Returns(form, doc) == [threw |-> FALSE, form |-> form, doc |-> doc]

MetadataTexts ==
  {Returns(f, d) : f \in {"json", "base64"}, d \in Docs}
    \cup {Returns(f, MNull) : f \in {"badjson", "base64bad", "base64other", "plain"}}
GetTokenMetadataAnswers == {Throws} \cup MetadataTexts

\* tokenURI / uri: the call throws, or returns a URI: ipfs://, http(s)://, a
\* data:application/json;base64, URI (payload JSON of a document, or no JSON),
\* or a URI of another scheme.
UriAnswers ==
  {Throws} \cup {Returns("data", d) : d \in Docs}
    \cup {Returns(f, MNull) : f \in {"ipfs", "http", "databad", "other"}}

\* axios.get: the request throws, or response.data is a parsed document, the
\* body text when the body is no JSON, or an empty body.
HttpAnswers ==
  {Throws} \cup {Returns("data", d) : d \in Docs}
    \cup {Returns("data", MString(<<"o", "k">>)), Returns("data", MString(<<>>))}

\* ---- MetadataResult
MetadataSuccess(metadata, sourceType) ==
  [metadata |-> metadata, sourceType |-> sourceType, success |-> TRUE, error |-> <<>>]
MetadataFailure(error) ==
  [metadata |-> MNull, sourceType |-> "unknown", success |-> FALSE, error |-> error]
AllMethodsFailed ==
  MetadataFailure(<<"Failed to retrieve metadata using all available methods">>)

\* parseBase64Metadata: the decoded document, or null
parseBase64Metadata(answer) ==
  IF answer.form \in {"base64", "data"} THEN answer.doc ELSE MNull

\* fetchMetadataFromURI up to its await: what it returns at once, or that it
\* waits for axios.get
fetchMetadataFromURI(answer) ==
  IF answer.form \in {"ipfs", "http"} THEN [awaits |-> TRUE, metadata |-> MNull]
  ELSE IF answer.form \in {"data", "databad"}
    THEN [awaits |-> FALSE, metadata |-> parseBase64Metadata(answer)]
    ELSE [awaits |-> FALSE, metadata |-> MNull]

\* ---- extractTraitValues: [threw, values], values an object as the sequence
\* of its entries in insertion order
SetEntry(values, key, value) ==
  IF \E k \in 1..Len(values) : values[k].key = key
    THEN [k \in 1..Len(values) |->
            IF values[k].key = key THEN [key |-> key, value |-> value] ELSE values[k]]
    ELSE Append(values, [key |-> key, value |-> value])

RECURSIVE fromArray(_, _, _)
fromArray(items, values, k) ==
  IF k > Len(items) THEN [threw |-> FALSE, values |-> values]
  ELSE IF items[k].isNull THEN [threw |-> TRUE, values |-> values]
  ELSE
    LET traitType == IF Truthy(items[k].trait_type) THEN items[k].trait_type ELSE items[k].name
    IN  IF Truthy(traitType)
          THEN fromArray(items, SetEntry(values, traitType.s, items[k].value), k + 1)
          ELSE fromArray(items, values, k + 1)

RECURSIVE fromObject(_, _, _)
fromObject(items, values, k) ==
  IF k > Len(items) THEN values
  ELSE fromObject(items, SetEntry(values, items[k].trait_type.s, items[k].value), k + 1)

\* String() of the elements k.. of an array: null gives the empty text, an
\* object "[object Object]", joined by commas
RECURSIVE JoinElements(_, _)
JoinElements(items, k) ==
  IF k > Len(items) THEN <<>>
  ELSE (IF items[k].isNull THEN <<>> ELSE Word("[object Object]"))
       \o (IF k < Len(items) THEN <<",">> ELSE <<>>)
       \o JoinElements(items, k + 1)

\* the field attributes (or traits) as a value
FieldValue(field) ==
  IF field.shape = "array" THEN VObject(JoinElements(field.items, 1))
  ELSE VObject(Word("[object Object]"))

\* Object.entries(metadata)
TopLevelEntries(metadata) ==
  IF metadata.t = "string"
    THEN [k \in 1..Len(metadata.chars) |->
            [key |-> ToString(k - 1), value |-> VStr(<<metadata.chars[k]>>)]]
    ELSE (IF metadata.attributes.shape = "absent" THEN <<>>
          ELSE <<[key |-> "attributes", value |-> FieldValue(metadata.attributes)]>>)
         \o (IF metadata.traits.shape = "absent" THEN <<>>
             ELSE <<[key |-> "traits", value |-> FieldValue(metadata.traits)]>>)
         \o metadata.top

NonTraitFields == {"name", "description", "image", "external_url", "animation_url"}

\* mutant: no top-level field is skipped
RECURSIVE fromTopLevelUnfiltered(_, _, _)
fromTopLevelUnfiltered(entries, values, k) ==
  IF k > Len(entries) THEN values
  ELSE fromTopLevelUnfiltered(entries, SetEntry(values, entries[k].key, entries[k].value), k + 1)

RECURSIVE fromTopLevel(_, _, _)
fromTopLevel(entries, values, k) ==
  IF k > Len(entries) THEN values
  ELSE IF entries[k].key \notin NonTraitFields
    THEN fromTopLevel(entries, SetEntry(values, entries[k].key, entries[k].value), k + 1)
    ELSE fromTopLevel(entries, values, k + 1)

extractTraitValues(metadata) ==
  IF ~MTruthy(metadata) THEN [threw |-> FALSE, values |-> <<>>]
  ELSE
    LET attributes == IF metadata.attributes.shape # "absent" THEN metadata.attributes
                      ELSE IF metadata.traits.shape # "absent" THEN metadata.traits
                      ELSE ArrayField(<<>>)
        first == IF attributes.shape = "array" THEN fromArray(attributes.items, <<>>, 1)
                 ELSE [threw |-> FALSE, values |-> fromObject(attributes.items, <<>>, 1)]
    IN  IF first.threw THEN first
        ELSE IF Len(first.values) = 0
          THEN [threw |-> FALSE, values |-> fromTopLevel(TopLevelEntries(metadata), <<>>, 1)]
          ELSE first

\* ---- fetchTokenMetadata
\* Each method's try block, from the answer of its contract call up to the next
\* await: "success" with the metadata, "failure" (the call threw, or the result
\* was empty or invalid), or "await" (axios.get is pending).
Success(metadata) == [kind |-> "success", metadata |-> metadata]
Failure == [kind |-> "failure", metadata |-> MNull]
Await == [kind |-> "await", metadata |-> MNull]

tryGetTokenMetadata(answer) ==
  IF answer.threw THEN Failure
  ELSE IF answer.form = "json" THEN Success(answer.doc)
  ELSE IF answer.form = "badjson" THEN Failure
  ELSE IF answer.form \in {"base64", "base64bad", "base64other"}
    THEN LET parsedMetadata == parseBase64Metadata(answer)
         IN  IF MTruthy(parsedMetadata) THEN Success(parsedMetadata) ELSE Failure
    ELSE Failure

tryUriMethod(answer) ==
  IF answer.threw THEN Failure
  ELSE LET f == fetchMetadataFromURI(answer)
       IN  IF f.awaits THEN Await
           ELSE IF MTruthy(f.metadata) THEN Success(f.metadata) ELSE Failure

\* fetchMetadataFromURI after its await, and the `if (metadata)` of the method
afterHttp(answer) ==
  LET metadata == IF answer.threw THEN MNull ELSE answer.doc
  IN  IF MTruthy(metadata) THEN Success(metadata) ELSE Failure

\* the sourceType a method's success is reported with
sourceTypeOf(method) ==
  CASE method = "getTokenMetadata" -> "forma"
    [] method = "tokenURI" -> "erc721"
    [] method = "uri" -> "opensea"

\* mutant: the tokenURI attempt is left out
afterFailureSkipping(method) ==
  CASE method = "getTokenMetadata" -> "uri"
    [] method = "tokenURI" -> "uri"
    [] method = "uri" -> "exhausted"

\* where fetchTokenMetadata goes when a method's try block ends without a return
afterFailure(method) ==
  CASE method = "getTokenMetadata" -> "tokenURI"
    [] method = "tokenURI" -> "uri"
    [] method = "uri" -> "exhausted"

\* ---- getDefaultValue, formatValue, generateCode
getDefaultValue(traitType) ==
  CASE traitType = "asString" -> VStr(<<>>)
    [] traitType = "asInt" -> VNum(0, 1)
    [] traitType = "asFloat" -> VNum(0, 1)
    [] OTHER -> VStr(<<>>)

\* formatValue: [threw, value]; String, parseInt and parseFloat first convert
\* their argument to a string, which throws for an object that cannot be
\* converted
\* parsed || 0
OrZero(parsed) == IF NumberTruthy(parsed) THEN parsed ELSE VNum(0, 1)

\* formatValue, str being what String(value) gives
formatValueOf(value, traitType, str) ==
  CASE traitType = "asString" ->
         [threw |-> str.threw, value |-> IF str.threw THEN VUndefined ELSE VStr(str.chars)]
    [] traitType = "asInt" ->
         [threw |-> str.threw,
          value |-> IF str.threw THEN VUndefined ELSE OrZero(ParseIntOf(str.chars))]
    [] traitType = "asFloat" ->
         [threw |-> str.threw,
          value |-> IF str.threw THEN VUndefined ELSE OrZero(ParseFloatOf(str.chars))]
    [] OTHER -> [threw |-> FALSE, value |-> value]

formatValue(value, traitType) == formatValueOf(value, traitType, ToStringOf(value))

\* trait.key || ''
KeyOf(trait) == IF Truthy(trait.key) THEN trait.key.s ELSE ""

\* obj[key] of an object kept as the sequence of its entries; found = FALSE
\* stands for undefined
Lookup(entries, key) ==
  IF \E k \in 1..Len(entries) : entries[k].key = key
    THEN [found |-> TRUE,
          value |-> entries[CHOOSE k \in 1..Len(entries) : entries[k].key = key].value]
    ELSE [found |-> FALSE, value |-> VUndefined]

TraitValue(original, formatted, traitType) ==
  [original |-> original, formatted |-> formatted, traitType |-> traitType]

\* value.replace(/'/g, "\\'")
RECURSIVE EscapeQuotes(_)
EscapeQuotes(chars) ==
  IF chars = <<>> THEN <<>>
  ELSE (IF Head(chars) = "'" THEN <<"\\", "'">> ELSE <<Head(chars)>>) \o EscapeQuotes(Tail(chars))

\* One line of generated code: its fixed text, and the name or the characters
\* interpolated into it.
Line(text, word, chars) == [text |-> text, word |-> word, chars |-> chars]

\* the lines generateCode emits for traits[i]
TraitLines(trait, traitValues) ==
  LET traitKey == KeyOf(trait)
      entry == Lookup(traitValues, traitKey)
      value == IF entry.found /\ entry.value.formatted.t \notin {"null", "undefined"}
                 THEN entry.value.formatted
                 ELSE getDefaultValue(trait.type)
      formattedValue == IF trait.type = "asString"
                          THEN <<"'">> \o EscapeQuotes(ToStringOf(value).chars) \o <<"'">>
                          ELSE ToStringOf(value).chars
  IN  <<Line("\"${traitKey}\": {", traitKey, <<>>),
        Line("${trait.type}() {", trait.type, <<>>),
        Line("return ${formattedValue};", "", formattedValue),
        Line("}", "", <<>>),
        Line("},", "", <<>>)>>

RECURSIVE AllTraitLines(_, _, _)
AllTraitLines(traits, traitValues, i) ==
  IF i > Len(traits) THEN <<>>
  ELSE TraitLines(traits[i], traitValues) \o AllTraitLines(traits, traitValues, i + 1)

\* mutant: the traits loop is left out
generateCodeWithoutTraits(collectionName, traits, traitValues, metadataSource) ==
  <<Line("const ${collectionName} = {", collectionName, <<>>),
    Line("// Metadata source: ${metadataSource}", metadataSource, <<>>),
    Line("traits: {", "", <<>>),
    Line("},", "", <<>>),
    Line("metadata(key) {", "", <<>>),
    Line("return this.traits[key];", "", <<>>),
    Line("},", "", <<>>),
    Line("useToken(tokenId) {", "", <<>>),
    Line("console.log('Using token', tokenId);", "", <<>>),
    Line("return this;", "", <<>>),
    Line("}", "", <<>>),
    Line("};", "", <<>>)>>

generateCode(collectionName, traits, traitValues, metadataSource) ==
  <<Line("const ${collectionName} = {", collectionName, <<>>),
    Line("// Metadata source: ${metadataSource}", metadataSource, <<>>),
    Line("traits: {", "", <<>>)>>
  \o AllTraitLines(traits, traitValues, 1)
  \o <<Line("},", "", <<>>),
       Line("metadata(key) {", "", <<>>),
       Line("return this.traits[key];", "", <<>>),
       Line("},", "", <<>>),
       Line("useToken(tokenId) {", "", <<>>),
       Line("console.log('Using token', tokenId);", "", <<>>),
       Line("return this;", "", <<>>),
       Line("}", "", <<>>),
       Line("};", "", <<>>)>>

\* results.map(result => result.code).join('\n') from codes[k] on: every code
\* ends with a line break, so the separator shows as an empty line
RECURSIVE JoinLines(_, _)
JoinLines(codes, k) ==
  IF k > Len(codes) THEN <<>>
  ELSE codes[k] \o (IF k < Len(codes) THEN <<Line("", "", <<>>)>> ELSE <<>>)
       \o JoinLines(codes, k + 1)

\* ---- generateFormaCollectionCode
\* mutant: a first token id that is falsy gives way to 1
chooseTokenIdTruthy(collection) ==
  IF Len(collection.tokenIndexes) > 0 /\ Truthy(collection.tokenIndexes[1])
    THEN collection.tokenIndexes[1] ELSE JNum(1, 1)

\* collection.tokenIndexes[0], or 1
chooseTokenId(collection) ==
  IF Len(collection.tokenIndexes) > 0 THEN collection.tokenIndexes[1] ELSE JNum(1, 1)

CollectionCodeResult(collection, traitValues, metadataSource, rawMetadata, error) ==
  [collectionName |-> collection.collection,
   address |-> IF Truthy(collection.address) THEN collection.address ELSE JNull,
   code |-> generateCode(collection.collection, collection.traits, traitValues, metadataSource),
   metadataSource |-> metadataSource,
   traitValues |-> traitValues,
   metadata |-> rawMetadata,
   tokenId |-> chooseTokenId(collection),
   success |-> error = <<>>,
   error |-> error]

\* mutant: the catch clause throws the error on
collectionCatchRethrow(collection, traitValues, metadataSource, rawMetadata, message) ==
  [rejected |-> TRUE,
   value |-> CollectionCodeResult(collection, traitValues, metadataSource, rawMetadata,
                                  <<"Error generating collection code">> \o message)]

\* the catch clause of generateFormaCollectionCode: traitValues, metadataSource
\* and rawMetadata keep what the try block assigned before it threw
collectionCatch(collection, traitValues, metadataSource, rawMetadata, message) ==
  [rejected |-> FALSE,
   value |-> CollectionCodeResult(collection, traitValues, metadataSource, rawMetadata,
                                  <<"Error generating collection code">> \o message)]

\* the loop over collection.traits from traits[i] on: [threw, traitValues]
RECURSIVE formatTraits(_, _, _, _)
formatTraits(traits, extractedValues, traitValues, i) ==
  IF i > Len(traits) THEN [threw |-> FALSE, traitValues |-> traitValues]
  ELSE
    LET key == KeyOf(traits[i])
        extractedValue == Lookup(extractedValues, key).value
        formatted == IF extractedValue.t = "undefined"
                       THEN [threw |-> FALSE, value |-> getDefaultValue(traits[i].type)]
                       ELSE formatValue(extractedValue, traits[i].type)
    IN  IF formatted.threw THEN [threw |-> TRUE, traitValues |-> traitValues]
        ELSE formatTraits(traits, extractedValues,
                          SetEntry(traitValues, key,
                                   TraitValue(extractedValue, formatted.value, traits[i].type)),
                          i + 1)

\* generateFormaCollectionCode from the point where fetchTokenMetadata has
\* returned `fetched`: whether the promise rejects, and the value it resolves to
completeCollection(collection, fetched) ==
  IF fetched.success /\ MTruthy(fetched.metadata)
    THEN LET extracted == extractTraitValues(fetched.metadata)
             formatted == formatTraits(collection.traits, extracted.values, <<>>, 1)
         IN  IF extracted.threw
               THEN collectionCatch(collection, <<>>, fetched.sourceType, fetched.metadata,
                                    <<"Cannot read properties of null">>)
             ELSE IF formatted.threw
               THEN collectionCatch(collection, formatted.traitValues, fetched.sourceType,
                                    fetched.metadata,
                                    <<"Cannot convert object to primitive value">>)
             ELSE [rejected |-> FALSE,
                   value |-> CollectionCodeResult(collection, formatted.traitValues,
                                                  fetched.sourceType, fetched.metadata, <<>>)]
    ELSE [rejected |-> FALSE,
          value |-> CollectionCodeResult(collection, <<>>, "unknown", MNull,
                      IF fetched.error # <<>> THEN fetched.error
                      ELSE <<"Unknown error retrieving metadata">>)]

\* generateFormaCollectionCode for a collection without an address
noAddress(collection) ==
  [rejected |-> FALSE,
   value |-> CollectionCodeResult(collection, <<>>, "unknown", MNull,
                                  <<"Collection has no address">>)]

\* ------------------------------------------------- NFTContractGenerator
\* A text is a sequence of lexemes.  The fixed parts of a template are one
\* lexeme each, as is every placeholder %X%, the line break and the list
\* separator; names, addresses, keys and chunks are spelled lexeme by lexeme,
\* where a lexeme is a character, a replacement pattern $$, $&, $` or $', or a
\* placeholder written in the sketch.  Searching a text for a placeholder is
\* done lexeme by lexeme.

\* text.indexOf(pattern), from 1; 0 when the pattern does not occur
IndexOf(text, pattern) ==
  IF \E i \in 1..Len(text) : text[i] = pattern
    THEN CHOOSE i \in 1..Len(text) : text[i] = pattern /\ \A j \in 1..(i - 1) : text[j] # pattern
    ELSE 0

\* GetSubstitution: the replacement text with its $ patterns expanded, for a
\* string pattern (no capture groups)
RECURSIVE GetSubstitution(_, _, _, _)
GetSubstitution(replacement, matched, before, after) ==
  IF replacement = <<>> THEN <<>>
  ELSE (CASE Head(replacement) = "$$" -> <<"$">>
          [] Head(replacement) = "$&" -> <<matched>>
          [] Head(replacement) = "$`" -> before
          [] Head(replacement) = "$'" -> after
          [] OTHER -> <<Head(replacement)>>)
       \o GetSubstitution(Tail(replacement), matched, before, after)

\* text.replace(/c/g, replacement) for a one-character pattern and a
\* replacement without $ patterns
RECURSIVE ReplaceAll(_, _, _)
ReplaceAll(text, pattern, replacement) ==
  IF text = <<>> THEN <<>>
  ELSE (IF Head(text) = pattern THEN replacement ELSE <<Head(text)>>)
       \o ReplaceAll(Tail(text), pattern, replacement)

\* String.prototype.replace(pattern, replacement) with a string pattern: the
\* first occurrence only
Replace(text, pattern, replacement) ==
  LET i == IndexOf(text, pattern)
      before == SubSeq(text, 1, i - 1)
      after == SubSeq(text, i + 1, Len(text))
  IN  IF i = 0 THEN text
      ELSE before \o GetSubstitution(replacement, pattern, before, after) \o after

\* texts.join(separator), from texts[k] on
RECURSIVE Join(_, _, _)
Join(texts, separator, k) ==
  IF k > Len(texts) THEN <<>>
  ELSE texts[k] \o (IF k < Len(texts) THEN separator ELSE <<>>) \o Join(texts, separator, k + 1)

\* the templates of the class
collectionAddress == <<"address private constant ", "%COLLECTION%", " = ", "%ADDRESS%", ";">>
collectionIndex == <<"uint256 private constant ", "%COLLECTION%", "_INDEX = ", "%INDEX%", ";">>
p5CodeChunk == <<"string private constant CHUNK_", "%INDEX%", " = \"", "%DATA%", "\";">>
tokenIdMapping == <<"uint256 ", "%TOKEN_ID%", " = _tokenIds[", "%COLLECTION%", "_INDEX];">>
functionParameter == <<"uint256 ", "%TOKEN_ID%">>
ownershipCheck ==
  <<"require(IERC721(", "%COLLECTION%", ").ownerOf(", "%TOKEN_ID%",
    ") == _msgSender(), \"Not the owner of required ", "%COLLECTION_NAME%", "\");">>
traitRegistration ==
  <<"_traitRegistry[", "%COLLECTION%", "_INDEX].push(TraitRegistry(\"", "%TYPE%", "\", \"",
    "%KEY%", "\"));">>
traitSizeSet == <<"_traitRegistrySize[", "%COLLECTION%", "_INDEX] = ", "%SIZE%", ";">>

\* a collection as the generator is given it: its name spelled out, and its
\* address, null or a text
NoAddress == [isNull |-> TRUE, text |-> <<>>]
Address(text) == [isNull |-> FALSE, text |-> text]
GenCollection(name, address) == [name |-> name, address |-> address]

\* _filterValidCollections: the collections whose address is truthy
_filterValidCollections(cs) ==
  SelectSeq(cs, LAMBDA c : ~c.address.isNull /\ c.address.text # <<>>)

\* toLowerCase / toUpperCase of one lexeme
LowerCase(c) ==
  CASE c = "A" -> "a" [] c = "B" -> "b" [] c = "C" -> "c" [] OTHER -> c
UpperCase(c) ==
  CASE c = "a" -> "A" [] c = "b" -> "B" [] c = "c" -> "C" [] OTHER -> c

\* name.trim()
RECURSIVE TrimEnd(_)
TrimEnd(text) ==
  IF text # <<>> /\ text[Len(text)] \in WhiteSpace THEN TrimEnd(SubSeq(text, 1, Len(text) - 1))
  ELSE text
Trim(text) == TrimEnd(SubSeq(text, SkipWhiteSpace(text, 1), Len(text)))

\* text.replace(/\s+/g, '_')
RECURSIVE UnderscoreSpaces(_, _)
UnderscoreSpaces(text, k) ==
  IF k > Len(text) THEN <<>>
  ELSE IF text[k] \in WhiteSpace
    THEN <<"_">> \o UnderscoreSpaces(text, SkipWhiteSpace(text, k))
    ELSE <<text[k]>> \o UnderscoreSpaces(text, k + 1)

_capitalize(text) ==
  IF text = <<>> THEN <<>> ELSE <<UpperCase(text[1])>> \o Tail(text)

_formatName(name) ==
  _capitalize(UnderscoreSpaces([k \in 1..Len(Trim(name)) |-> LowerCase(Trim(name)[k])], 1))

\* `tokenId_${this._formatName(collection.name)}`
TokenIdOf(collection) == <<"tokenId_">> \o _formatName(collection.name)

\* array.map(f) for a function f of the element and its index (from 0)
MapIndexed(items, f(_, _)) == [k \in 1..Len(items) |-> f(items[k], k - 1)]

generateCollectionAddresses(cs) ==
  Join(MapIndexed(_filterValidCollections(cs),
                  LAMBDA collection, index :
                    Replace(Replace(collectionAddress, "%COLLECTION%", collection.name),
                            "%ADDRESS%", collection.address.text)),
       <<"\n">>, 1)

generateCollectionIndexes(cs) ==
  Join(MapIndexed(_filterValidCollections(cs),
                  LAMBDA collection, index :
                    Replace(Replace(collectionIndex, "%COLLECTION%", collection.name),
                            "%INDEX%", NatDigits(index))),
       <<"\n">>, 1)

generateTokenIdMapping(cs) ==
  Join(MapIndexed(_filterValidCollections(cs),
                  LAMBDA collection, index :
                    Replace(Replace(tokenIdMapping, "%TOKEN_ID%", TokenIdOf(collection)),
                            "%COLLECTION%", collection.name)),
       <<"\n">>, 1)

generateOwnershipChecks(cs) ==
  Join(MapIndexed(_filterValidCollections(cs),
                  LAMBDA collection, index :
                    Replace(Replace(Replace(ownershipCheck, "%COLLECTION%", collection.name),
                                    "%TOKEN_ID%", TokenIdOf(collection)),
                            "%COLLECTION_NAME%", _formatName(collection.name))),
       <<"\n">>, 1)

generateFunctionParameters(cs) ==
  LET validCollections == _filterValidCollections(cs)
  IN  Join(MapIndexed(validCollections,
                      LAMBDA collection, index :
                        Replace(functionParameter, "%TOKEN_ID%", TokenIdOf(collection))
                          \o (IF index = Len(validCollections) - 1 THEN <<>> ELSE <<", ">>)),
           <<>>, 1)

\* mutant: the double quote is escaped before the backslash
_escapeStringQuoteFirst(str) ==
  ReplaceAll(ReplaceAll(ReplaceAll(str, "\"", <<"\\", "\"">>), "\\", <<"\\", "\\">>),
             "\n", <<"\\", "n">>)

_escapeString(str) ==
  ReplaceAll(ReplaceAll(ReplaceAll(str, "\\", <<"\\", "\\">>), "\"", <<"\\", "\"">>),
             "\n", <<"\\", "n">>)

\* a trait and a TraitData as the generator is given them: the key is null or
\* a text, the collection name is spelled out
NoKey == [isNull |-> TRUE, text |-> <<>>]
Key(text) == [isNull |-> FALSE, text |-> text]
GenTrait(key, type) == [key |-> key, type |-> type]
GenTraitData(name, address, traitList) ==
  [collection |-> name, address |-> address, traits |-> traitList]

_mapTraitTypeToSolidity(type) ==
  CASE type = "asInt" -> "asInt"
    [] type = "asString" -> "asString"
    [] type = "asFloat" -> "asFloat"
    [] OTHER -> "asString"

\* the statements pushed to registrationCode for one TraitData
RegistrationCodeOf(data) ==
  [k \in 1..Len(data.traits) |->
     Replace(Replace(Replace(traitRegistration, "%COLLECTION%", data.collection),
                     "%TYPE%", <<_mapTraitTypeToSolidity(data.traits[k].type)>>),
             "%KEY%", IF data.traits[k].key.isNull THEN <<>> ELSE data.traits[k].key.text)]

\* the statement pushed to sizeSetCode for one TraitData
SizeSetCodeOf(data) ==
  Replace(Replace(traitSizeSet, "%COLLECTION%", data.collection),
          "%SIZE%", NatDigits(Len(data.traits)))

\* registrationCode after the TraitDatas from traitData[k] on
RECURSIVE RegistrationCode(_, _)
RegistrationCode(traitData, k) ==
  IF k > Len(traitData) THEN <<>>
  ELSE RegistrationCodeOf(traitData[k]) \o RegistrationCode(traitData, k + 1)

\* mutant: each collection's size statement follows its own registrations
generateTraitRegistrationInterleaved(traitData) ==
  Join([k \in 1..Len(traitData) |->
          Join(Append(RegistrationCodeOf(traitData[k]), SizeSetCodeOf(traitData[k])),
               <<"\n">>, 1)],
       <<"\n">>, 1)

generateTraitRegistration(traitData) ==
  Join(RegistrationCode(traitData, 1)
         \o [k \in 1..Len(traitData) |-> SizeSetCodeOf(traitData[k])],
       <<"\n">>, 1)

\* ---- the methods that do not go through the templates' address filter
generateP5Storage(chunks) ==
  Join(MapIndexed(chunks,
                  LAMBDA chunk, index :
                    Replace(Replace(p5CodeChunk, "%INDEX%", NatDigits(index)),
                            "%DATA%", _escapeString(chunk))),
       <<"\n">>, 1)
    \o Replace(<<"\n\nuint256 private constant CHUNK_COUNT = ", "%COUNT%", ";">>,
               "%COUNT%", NatDigits(Len(chunks)))

generateP5Ls(chunks) ==
  Join(MapIndexed(chunks,
                  LAMBDA chunk, index :
                    <<"CHUNK_">> \o NatDigits(index)
                      \o (IF index = Len(chunks) - 1 THEN <<>> ELSE <<", ">>)),
       <<>>, 1)

generateSolidityJsField(cs) ==
  Join(MapIndexed(cs,
                  LAMBDA collection, index :
                    <<"string memory ">> \o collection.name
                      \o <<"_jsField = generateCollectionTraitJS(\"">> \o collection.name
                      \o <<"\", ">> \o collection.name \o <<", ">> \o collection.name
                      \o <<"_INDEX, ", "tokenId_">> \o _formatName(collection.name) \o <<");">>),
       <<"\n">>, 1)

generateMetadataExtraction(cs) ==
  Join(MapIndexed(_filterValidCollections(cs),
                  LAMBDA collection, index :
                    <<"string memory ", "metadata_">> \o _formatName(collection.name)
                      \o <<" = ">> \o collection.name \o <<".getTokenMetadata(">>
                      \o TokenIdOf(collection) \o <<");">>),
       <<"\n">>, 1)

\* code after the TraitDatas from traitData[k] on have been added
RECURSIVE AttributeSettings(_, _)
AttributeSettings(traitData, k) ==
  IF k > Len(traitData) THEN <<>>
  ELSE <<"\n    .setTokenAttribute(\"">>
       \o [j \in 1..Len(traitData[k].collection) |-> LowerCase(traitData[k].collection[j])]
       \o <<"_metadata\", ", "metadata_">> \o _formatName(traitData[k].collection) \o <<")">>
       \o AttributeSettings(traitData, k + 1)

generateFullMetadataSettings(traitData) ==
  <<"string memory tokenMetadata = \"{}\";", "\ntokenMetadata = tokenMetadata">>
    \o AttributeSettings(traitData, 1)
    \o <<"\n    .setTokenAttribute(\"canvas\", canvasBase64)", ";">>

generateSolidityBase64EncodedField(cs) ==
  <<"\n        string memory allTraits = string(abi.encodePacked(">>
    \o Join([k \in 1..Len(cs) |-> cs[k].name \o <<"_jsField">>], <<", ">>, 1)
    \o <<"));\n    ">>

generateMetadataCementing == <<"_cementTokenMetadata(newTokenId);">>

\* ---- generateSolidityContract
\* The base template: its placeholders in the order they stand in it, the text
\* between them shortened.
templateSolidity ==
  <<"pragma solidity ^0.8.24; ... using Strings for string;",
    "%COLLECTION_CONTRACTS%", "\n\n", "%COLLECTION_CODE%", "\n\n", "%CHUNKS%",
    "mapping ... constructor( ... _transferOwnership(_initialOwner);\n",
    "%COLLECTION_TRAITS%",
    "\n}\nfunction mint(address _to, uint256[] memory _tokenIds) external {\n",
    "%ID_MAPPING%", "\n", "%REQUIRED_MINT_CODE%", "\n", "%METADATA_EXP%", "\n", "%TRAIT_JS%",
    "\n", "%TRAIT_BASE64%",
    "string memory canvasUnpacked ... canvasBase64 = Base64.encode(bytes(canvas));\n\n",
    "%ATTRIBUTES%",
    "uint256 newTokenId = _nextTokenId;\n_setTokenMetadata(newTokenId, tokenMetadata);\n",
    "%CEMENT_METADATA_CODE%",
    "_safeMint(_to, newTokenId); ... function _getP5Base() ... return string(abi.encodePacked(",
    "%P5_LS%", ")); ... }">>

\* the replace calls of generateSolidityContract in their order: placeholder
\* and replacement, for the analysis and the chunks (p5slot)
Substitutions(analysis, p5slot) ==
  <<[placeholder |-> "%CONTRACT_NAME%", text |-> <<"NFTCollection">>],
    [placeholder |-> "%COLLECTION_CONTRACTS%",
     text |-> generateCollectionAddresses(analysis.collections)],
    [placeholder |-> "%COLLECTION_CODE%",
     text |-> generateCollectionIndexes(analysis.collections)],
    [placeholder |-> "%CHUNKS%", text |-> generateP5Storage(p5slot)],
    [placeholder |-> "%COLLECTION_TRAITS%", text |-> generateTraitRegistration(analysis.data)],
    [placeholder |-> "%ID_MAPPING%", text |-> generateTokenIdMapping(analysis.collections)],
    [placeholder |-> "%REQUIRED_MINT_CODE%",
     text |-> generateOwnershipChecks(analysis.collections)],
    [placeholder |-> "%METADATA_EXP%",
     text |-> generateMetadataExtraction(analysis.collections)],
    [placeholder |-> "%TRAIT_JS%", text |-> generateSolidityJsField(analysis.collections)],
    [placeholder |-> "%TRAIT_BASE64%",
     text |-> generateSolidityBase64EncodedField(analysis.collections)],
    [placeholder |-> "%P5_LS%", text |-> generateP5Ls(p5slot)],
    [placeholder |-> "%ATTRIBUTES%", text |-> generateFullMetadataSettings(analysis.data)],
    [placeholder |-> "%CEMENT_METADATA_CODE%", text |-> generateMetadataCementing]>>

\* the chain of replace calls from the k-th on, applied to text
RECURSIVE ReplaceChain(_, _, _)
ReplaceChain(text, substitutions, k) ==
  IF k > Len(substitutions) THEN text
  ELSE ReplaceChain(Replace(text, substitutions[k].placeholder, substitutions[k].text),
                    substitutions, k + 1)

\* generateSolidityContract from the point where analysis and p5slot are known
generateSolidityContract(analysis, p5slot, template) ==
  ReplaceChain(template, Substitutions(analysis, p5slot), 1)

\* ------------------------------------------------------------------ state
VARIABLES
  collections, traits, issues, tokenIndexes,  \* the fields of one NFTCodeAnalyzer
  queue,      \* the source texts still to be passed to analyze, in call order
  code,       \* the argument of the latest analyze call
  result,     \* what that call returned
  threw,      \* whether an exception left that call
  history     \* <<code, result>> of every call made so far

analyzerVars == <<collections, traits, issues, tokenIndexes, queue, code, result, threw, history>>

VARIABLES
  input,         \* the argument of generateFormaCollectionCodes
  idx,           \* its loop variable i (from 1)
  rpc,           \* where the call stands: at the loop head, awaiting a read, done
  results,       \* its local results
  successCount,
  failureCount,
  returned,      \* the value the call resolved to
  rejected,      \* whether the call rejected
  log,           \* the contract reads and HTTP requests made, in order
  failed,        \* per collection, the methods whose attempt has failed
  fetched        \* per collection, what fetchTokenMetadata returned

handlerVars == <<input, idx, rpc, results, successCount, failureCount, returned, rejected,
                 log, failed, fetched>>

VARIABLES
  value,         \* the first argument of a formatValue call
  traitType,     \* its second argument
  formatted      \* <<>> before the call, then <<[threw, value]>>: how it ended

formatVars == <<value, traitType, formatted>>

VARIABLES
  argument,      \* the argument of a call of a generator method: [kind, items]
  output         \* [method, text]: the method called and what it returned

generatorVars == <<argument, output>>

VARIABLES
  resolved,      \* the argument of an extractTraitValues call
  extraction     \* <<>> before the call returns, then <<[threw, values]>>
extractVars == <<resolved, extraction>>

vars == <<analyzerVars, handlerVars, formatVars, generatorVars, extractVars>>

Fields == [collections |-> collections, traits |-> traits, issues |-> issues,
           tokenIndexes |-> tokenIndexes]

NoResult == [collections |-> <<>>, traits |-> <<>>, data |-> <<>>, issues |-> <<>>,
             tokenIndexes |-> <<>>]

NoBatch == [collections |-> <<>>, combinedCode |-> <<>>, successCount |-> 0,
            failureCount |-> 0]

\* the handler's variables while the analyzer is looked at
HandlerUnused ==
  /\ input = <<>>
  /\ idx = 1
  /\ rpc = "unused"
  /\ results = <<>>
  /\ successCount = 0
  /\ failureCount = 0
  /\ returned = NoBatch
  /\ rejected = FALSE
  /\ log = <<>>
  /\ failed = <<>>
  /\ fetched = <<>>

\* formatValue's variables while another part is looked at
ExtractUnused ==
  /\ resolved = MNull
  /\ extraction = <<>>

FormatUnused ==
  /\ value = VUndefined
  /\ traitType = ""
  /\ formatted = <<>>

NoArgument == [kind |-> "none", items |-> <<>>]
NoOutput == [method |-> "", text |-> <<>>]

\* the generator's variables while another part is looked at
GeneratorUnused ==
  /\ argument = NoArgument
  /\ output = NoOutput

\* the analyzer's variables while the handler is looked at
AnalyzerUnused ==
  /\ collections = <<>>
  /\ traits = <<>>
  /\ issues = <<>>
  /\ tokenIndexes = <<>>
  /\ queue = <<>>
  /\ code = Unparsable
  /\ result = NoResult
  /\ threw = FALSE
  /\ history = <<>>

\* One source analysed on a new analyzer (analyzeCode), or two sources analysed
\* one after the other on the same analyzer.
Init ==
  /\ ExtractUnused
  /\ collections = <<>>
  /\ traits = <<>>
  /\ issues = <<>>
  /\ tokenIndexes = <<>>
  /\ \/ \E s \in {Unparsable} : queue = <<s>>
     \/ \E m \in 0..MaxStmts : \E b \in [1..m -> Nodes] : queue = <<Parsed(b)>>
     \/ \E m1 \in 0..ReuseLen, m2 \in 0..ReuseLen :
          \E b1 \in [1..m1 -> Nodes], b2 \in [1..m2 -> Nodes] :
            \E p1 \in BOOLEAN, p2 \in BOOLEAN :
              queue = <<IF p1 THEN Parsed(b1) ELSE Unparsable,
                        IF p2 THEN Parsed(b2) ELSE Unparsable>>
  /\ code = Unparsable
  /\ result = NoResult
  /\ threw = FALSE
  /\ history = <<>>
  /\ HandlerUnused
  /\ FormatUnused
  /\ GeneratorUnused

\* analyzer.analyze(Head(queue))
Analyze ==
  /\ queue # <<>>
  /\ LET r == analyze(Fields, Head(queue))
     IN  /\ collections' = r.st.collections
         /\ traits' = r.st.traits
         /\ issues' = r.st.issues
         /\ tokenIndexes' = r.st.tokenIndexes
         /\ code' = Head(queue)
         /\ result' = r.result
         /\ threw' = r.threw
         /\ history' = Append(history, [code |-> Head(queue), result |-> r.result])
  /\ queue' = Tail(queue)
  /\ UNCHANGED <<handlerVars, formatVars, generatorVars, extractVars>>

Next == Analyze

Spec == Init /\ [][Next]_vars

\* ------------------------------------------------- the handler's steps
TokenIndexLists == {<<>>, <<JNum(0, 1), JNum(3, 1)>>}
ColorAsString ==
  [collection |-> "A", key |-> JStr("Color"), type |-> "asString", sourceLocation |-> 1]
ColorAsInt ==
  [collection |-> "A", key |-> JStr("Color"), type |-> "asInt", sourceLocation |-> 2]
SizeAsInt ==
  [collection |-> "A", key |-> JStr("Size"), type |-> "asInt", sourceLocation |-> 3]
KeylessAsFloat ==
  [collection |-> "A", key |-> JNull, type |-> "asFloat", sourceLocation |-> 4]
TraitLists ==
  {<<>>, <<ColorAsString>>, <<ColorAsInt, ColorAsString>>,
   <<KeylessAsFloat, SizeAsInt, ColorAsString>>}
\* the collections a call with one collection is given
TraitDatas ==
  {[collection |-> "A", address |-> a, traits |-> tr, tokenIndexes |-> ti] :
     a \in {JNull, JUndefined, JStr(""), JStr("0xAA")}, tr \in TraitLists, ti \in TokenIndexLists}
\* the collections a call with several collections is given
BatchTraitDatas ==
  {[collection |-> "A", address |-> JStr("0xAA"), traits |-> <<ColorAsString>>,
    tokenIndexes |-> <<JNum(3, 1)>>],
   [collection |-> "B", address |-> JStr("0xBB"), traits |-> <<>>, tokenIndexes |-> <<>>],
   [collection |-> "C", address |-> JNull, traits |-> <<>>, tokenIndexes |-> <<JNum(5, 1)>>]}

\* generateFormaCollectionCodes(input) has been called
InitHandler ==
  /\ ExtractUnused
  /\ AnalyzerUnused
  /\ FormatUnused
  /\ GeneratorUnused
  /\ \/ \E c \in TraitDatas : input = <<c>>
     \/ \E m \in 0..MaxCollections : input \in [1..m -> BatchTraitDatas]
  /\ idx = 1
  /\ rpc = "loop"
  /\ results = <<>>
  /\ successCount = 0
  /\ failureCount = 0
  /\ returned = NoBatch
  /\ rejected = FALSE
  /\ log = <<>>
  /\ failed = [i \in 1..Len(input) |-> {}]
  /\ fetched = <<>>

Read(call) == [call |-> call, collection |-> idx, tokenId |-> chooseTokenId(input[idx])]

\* mutant: every result is counted as a success
DeliverCountingSuccess(r) ==
  /\ results' = Append(results, r.value)
  /\ successCount' = successCount + 1
  /\ failureCount' = failureCount
  /\ idx' = idx + 1
  /\ rpc' = "loop"
  /\ UNCHANGED rejected

\* generateFormaCollectionCode has settled with r: the rest of the loop body
Deliver(r) ==
  IF r.rejected
    THEN /\ rejected' = TRUE
         /\ rpc' = "rejected"
         /\ UNCHANGED <<idx, results, successCount, failureCount>>
    ELSE /\ results' = Append(results, r.value)
         /\ successCount' = IF r.value.success THEN successCount + 1 ELSE successCount
         /\ failureCount' = IF r.value.success THEN failureCount ELSE failureCount + 1
         /\ idx' = idx + 1
         /\ rpc' = "loop"
         /\ UNCHANGED rejected

\* fetchTokenMetadata returns m to generateFormaCollectionCode
FetchReturns(m) ==
  /\ fetched' = Append(fetched, [collection |-> idx, result |-> m])
  /\ Deliver(completeCollection(input[idx], m))

\* a method's try block has ended with outcome o
MethodEnds(method, o) ==
  CASE o.kind = "success" ->
         /\ FetchReturns(MetadataSuccess(o.metadata, sourceTypeOf(method)))
         /\ UNCHANGED failed
    [] o.kind = "await" ->
         /\ rpc' = method \o "_http"
         /\ UNCHANGED <<idx, results, successCount, failureCount, rejected, failed, fetched>>
    [] o.kind = "failure" ->
         /\ failed' = [failed EXCEPT ![idx] = @ \cup {method}]
         /\ IF afterFailure(method) = "exhausted"
              THEN FetchReturns(AllMethodsFailed)
              ELSE /\ rpc' = afterFailure(method)
                   /\ UNCHANGED <<idx, results, successCount, failureCount, rejected, fetched>>

\* the loop body up to the first await of generateFormaCollectionCode
BeginCollection ==
  /\ rpc = "loop"
  /\ idx <= Len(input)
  /\ IF Truthy(input[idx].address)
       THEN /\ rpc' = "getTokenMetadata"
            /\ UNCHANGED <<idx, results, successCount, failureCount, rejected>>
       ELSE Deliver(noAddress(input[idx]))
  /\ UNCHANGED <<input, returned, log, failed, fetched>>
  /\ UNCHANGED <<analyzerVars, formatVars, generatorVars, extractVars>>

\* contract.getTokenMetadata(tokenId) settles
GetTokenMetadataReturns ==
  /\ rpc = "getTokenMetadata"
  /\ \E answer \in GetTokenMetadataAnswers :
       MethodEnds("getTokenMetadata", tryGetTokenMetadata(answer))
  /\ log' = Append(log, Read("getTokenMetadata"))
  /\ UNCHANGED <<input, returned>>
  /\ UNCHANGED <<analyzerVars, formatVars, generatorVars, extractVars>>

\* contract.tokenURI(tokenId) settles
TokenURIReturns ==
  /\ rpc = "tokenURI"
  /\ \E answer \in UriAnswers : MethodEnds("tokenURI", tryUriMethod(answer))
  /\ log' = Append(log, Read("tokenURI"))
  /\ UNCHANGED <<input, returned>>
  /\ UNCHANGED <<analyzerVars, formatVars, generatorVars, extractVars>>

\* contract.uri(tokenId) settles
UriReturns ==
  /\ rpc = "uri"
  /\ \E answer \in UriAnswers : MethodEnds("uri", tryUriMethod(answer))
  /\ log' = Append(log, Read("uri"))
  /\ UNCHANGED <<input, returned>>
  /\ UNCHANGED <<analyzerVars, formatVars, generatorVars, extractVars>>

\* axios.get(uri) settles, for the URI tokenURI or uri returned
HttpReturns ==
  /\ rpc \in {"tokenURI_http", "uri_http"}
  /\ \E answer \in HttpAnswers :
       MethodEnds(IF rpc = "tokenURI_http" THEN "tokenURI" ELSE "uri", afterHttp(answer))
  /\ log' = Append(log, Read("http"))
  /\ UNCHANGED <<input, returned>>
  /\ UNCHANGED <<analyzerVars, formatVars, generatorVars, extractVars>>

\* the loop is over: generateFormaCollectionCodes resolves
Finish ==
  /\ rpc = "loop"
  /\ idx > Len(input)
  /\ returned' = [collections |-> results,
                  combinedCode |-> JoinLines([k \in 1..Len(results) |-> results[k].code], 1),
                  successCount |-> successCount,
                  failureCount |-> failureCount]
  /\ rpc' = "done"
  /\ UNCHANGED <<input, idx, results, successCount, failureCount, rejected, log, failed, fetched>>
  /\ UNCHANGED <<analyzerVars, formatVars, generatorVars, extractVars>>

NextHandler ==
  \/ BeginCollection
  \/ GetTokenMetadataReturns
  \/ TokenURIReturns
  \/ UriReturns
  \/ HttpReturns
  \/ Finish

SpecHandler == InitHandler /\ [][NextHandler]_vars

\* ------------------------------------------------- formatValue on its own
\* the texts of at most k characters over the alphabet
Alphabet == {"0", "7", ".", "-", "e", "x", " "}
Texts(k) == UNION {[1..m -> Alphabet] : m \in 0..k}

\* the values formatValue is given: every kind of JSON value, with the texts up
\* to MaxChars characters and some longer ones
FormatInputs ==
  {VNull, VUndefined, VBool(TRUE), VBool(FALSE), VNaN, VInfinity(1), VInfinity(0 - 1),
   VNum(0, 1), VNum(42, 1), VNum(0 - 3, 1), VNum(7, 2), VNum(0 - 1, 4),
   VObject(Word("[object Object]")), VObject(<<>>), VObject(<<"7">>), VOpaque,
   VStr(Word("Blue")), VStr(Word("Infinity")), VStr(<<"-">> \o Word("Infinity")),
   VStr(<<"O", "x", "7">>), VStr(<<"7", "0", "p", "x">>), VStr(<<"0", "x", "7", "f">>),
   VStr(<<"7", ".", "7", "e", "-", "7">>)}
    \cup {VStr(chars) : chars \in Texts(MaxChars)}

FormatTypes == {"asString", "asInt", "asFloat", "asBool"}

InitFormat ==
  /\ ExtractUnused
  /\ AnalyzerUnused
  /\ HandlerUnused
  /\ GeneratorUnused
  /\ value \in FormatInputs
  /\ traitType \in FormatTypes
  /\ formatted = <<>>

\* formatValue(value, traitType)
FormatValue ==
  /\ formatted = <<>>
  /\ formatted' = <<formatValue(value, traitType)>>
  /\ UNCHANGED <<value, traitType>>
  /\ UNCHANGED <<analyzerVars, handlerVars, generatorVars, extractVars>>

NextFormat == FormatValue

SpecFormat == InitFormat /\ [][NextFormat]_vars

\* ------------------------------------------------- extractTraitValues
\* the field attributes or traits of a metadata object
AttributeFields ==
  {AbsentField,
   ArrayField(<<>>),
   ArrayField(<<Attr(JStr("Color"), JUndefined, VStr(Word("Blue")))>>),
   ArrayField(<<Attr(JUndefined, JStr("Size"), VNum(7, 1)),
                Attr(JStr("Size"), JStr("Color"), VNum(3, 1))>>),
   ArrayField(<<Attr(JUndefined, JUndefined, VNum(7, 1))>>),
   ArrayField(<<Attr(JStr("Color"), JUndefined, VNull), NullElement>>),
   ObjectField(<<>>),
   ObjectField(<<Attr(JStr("name"), JUndefined, VStr(<<"x">>))>>)}

\* its other top-level fields
TopLevels ==
  {<<>>,
   <<[key |-> "name", value |-> VStr(<<"x">>)]>>,
   <<[key |-> "image", value |-> VStr(<<"x">>)], [key |-> "Color", value |-> VStr(<<"7">>)]>>,
   <<[key |-> "description", value |-> VNull], [key |-> "external_url", value |-> VNull],
     [key |-> "animation_url", value |-> VNull], [key |-> "Size", value |-> VNum(7, 1)]>>}

InitExtract ==
  /\ AnalyzerUnused
  /\ HandlerUnused
  /\ FormatUnused
  /\ GeneratorUnused
  /\ \/ resolved \in {MNull, MString(<<>>), MString(<<"a", "b">>)}
     \/ \E attributes \in AttributeFields, traitsField \in AttributeFields, top \in TopLevels :
          resolved = MObject(attributes, traitsField, top)
  /\ extraction = <<>>

\* extractTraitValues(resolved)
ExtractTraitValues ==
  /\ extraction = <<>>
  /\ extraction' = <<extractTraitValues(resolved)>>
  /\ UNCHANGED resolved
  /\ UNCHANGED <<analyzerVars, handlerVars, formatVars, generatorVars>>

NextExtract == ExtractTraitValues

SpecExtract == InitExtract /\ [][NextExtract]_vars

\* ------------------------------------------- the generator's methods called
\* the collections a method is given: with an address, without one (null),
\* declared with the empty text as address, and named in lower case
GenCollections ==
  {GenCollection(<<"A">>, Address(<<"0xAA">>)),
   GenCollection(<<"B">>, Address(<<"0xBB">>)),
   GenCollection(<<"C">>, NoAddress),
   GenCollection(<<"a", "B">>, Address(<<>>)),
   GenCollection(<<"a">>, Address(<<"0xCC">>))}

GenTraitDatas ==
  {GenTraitData(<<"A">>, Address(<<"0xAA">>),
                <<GenTrait(Key(<<"Color">>), "asString"), GenTrait(Key(<<"Size">>), "asInt")>>),
   GenTraitData(<<"B">>, Address(<<"0xBB">>), <<>>),
   GenTraitData(<<"C">>, NoAddress, <<GenTrait(NoKey, "asFloat")>>),
   GenTraitData(<<"a", "B">>, Address(<<>>), <<GenTrait(Key(<<"$$", "1">>), "asInt")>>),
   GenTraitData(<<"B">>, Address(<<"0xBB">>), <<GenTrait(Key(<<"%ID_MAPPING%">>), "asInt")>>)}

\* the chunks the sketch source is cut into
Chunks == {<<"a">>, <<"\"", "\n">>, <<"a", "$&">>}

\* the characters of a text to escape: backslash, double quote, line break and
\* ordinary characters
TextAlphabet == {"\\", "\"", "\n", "n", "a"}

InitGenerator ==
  /\ ExtractUnused
  /\ AnalyzerUnused
  /\ HandlerUnused
  /\ FormatUnused
  /\ \E m \in 0..MaxItems :
       \/ \E items \in [1..m -> GenCollections] :
            argument = [kind |-> "collections", items |-> items]
       \/ \E items \in [1..m -> GenTraitDatas] :
            argument = [kind |-> "traitData", items |-> items]
       \/ \E items \in [1..m -> Chunks] : argument = [kind |-> "chunks", items |-> items]
       \/ \E n \in 0..MaxText : \E items \in [1..n -> TextAlphabet] :
            argument = [kind |-> "text", items |-> items]
       \/ \E items \in UNION {[collections : [1..m1 -> GenCollections],
                                data : [1..m2 -> GenTraitDatas],
                                chunks : [1..m3 -> Chunks]] :
                                 m1 \in 0..MaxParts, m2 \in 0..MaxParts, m3 \in 0..MaxParts} :
            argument = [kind |-> "analysis", items |-> items]
       \/ argument = NoArgument
  /\ output = NoOutput

\* a method is called with the argument and returns text
Returned(kind, method, text) ==
  /\ argument.kind = kind
  /\ output = NoOutput
  /\ output' = [method |-> method, text |-> text]
  /\ UNCHANGED argument
  /\ UNCHANGED <<analyzerVars, handlerVars, formatVars, extractVars>>

GenerateCollectionAddresses ==
  Returned("collections", "generateCollectionAddresses",
           generateCollectionAddresses(argument.items))
GenerateCollectionIndexes ==
  Returned("collections", "generateCollectionIndexes", generateCollectionIndexes(argument.items))
GenerateTokenIdMapping ==
  Returned("collections", "generateTokenIdMapping", generateTokenIdMapping(argument.items))
GenerateOwnershipChecks ==
  Returned("collections", "generateOwnershipChecks", generateOwnershipChecks(argument.items))
GenerateFunctionParameters ==
  Returned("collections", "generateFunctionParameters",
           generateFunctionParameters(argument.items))
GenerateTraitRegistration ==
  Returned("traitData", "generateTraitRegistration", generateTraitRegistration(argument.items))

EscapeString == Returned("text", "_escapeString", _escapeString(argument.items))
GenerateP5Storage == Returned("chunks", "generateP5Storage", generateP5Storage(argument.items))
GenerateP5Ls == Returned("chunks", "generateP5Ls", generateP5Ls(argument.items))
GenerateSolidityJsField ==
  Returned("collections", "generateSolidityJsField", generateSolidityJsField(argument.items))
GenerateMetadataExtraction ==
  Returned("collections", "generateMetadataExtraction", generateMetadataExtraction(argument.items))
GenerateSolidityBase64EncodedField ==
  Returned("collections", "generateSolidityBase64EncodedField",
           generateSolidityBase64EncodedField(argument.items))
GenerateFullMetadataSettings ==
  Returned("traitData", "generateFullMetadataSettings",
           generateFullMetadataSettings(argument.items))
GenerateMetadataCementing ==
  Returned("none", "generateMetadataCementing", generateMetadataCementing)
\* generateSolidityContract, its analysis and chunks being argument.items
GenerateSolidityContract ==
  Returned("analysis", "generateSolidityContract",
           generateSolidityContract(argument.items, argument.items.chunks, templateSolidity))

NextGenerator ==
  \/ GenerateCollectionAddresses
  \/ GenerateCollectionIndexes
  \/ GenerateTokenIdMapping
  \/ GenerateOwnershipChecks
  \/ GenerateFunctionParameters
  \/ GenerateTraitRegistration
  \/ EscapeString
  \/ GenerateP5Storage
  \/ GenerateP5Ls
  \/ GenerateSolidityJsField
  \/ GenerateMetadataExtraction
  \/ GenerateSolidityBase64EncodedField
  \/ GenerateFullMetadataSettings
  \/ GenerateMetadataCementing
  \/ GenerateSolidityContract

SpecGenerator == InitGenerator /\ [][NextGenerator]_vars

\* ================================================================ claims
\* ---- vocabulary of the claims about analyze
Called == history # <<>>
Body == code.body
NodeIdx(kind) == {i \in 1..Len(Body) : Body[i].kind = kind}

\* what a call's first argument denotes: the literal's value, or null
ArgValue(arg) == IF arg.type = "Literal" THEN arg.value ELSE JNull
TripleOf(node) == <<node.name, ArgValue(node.arg), node.ttype>>
TraitTriple(t) == <<t.collection, t.key, t.type>>
DeclaredNames == {Body[i].name : i \in NodeIdx("decl")}
IsInteger(v) == v.t = "number" /\ v.d = 1
IssuesAt(loc) == {k \in 1..Len(result.issues) : result.issues[k].location = loc}
Mentions(issue, name) == \E p \in 1..Len(issue.message) : issue.message[p] = name

\* the members of a set of positions, in increasing order
RECURSIVE Ascending(_)
Ascending(S) ==
  IF S = {} THEN <<>>
  ELSE LET lo == CHOOSE x \in S : \A y \in S : x <= y
       IN  <<lo>> \o Ascending(S \ {lo})

\* C1: analyze never throws; a source that fails to parse yields exactly one
\* issue, of type error, and empty collections, traits, tokenIndexes and data.
C1_ParseFailure ==
  Called =>
    /\ ~threw
    /\ ~code.parses =>
         /\ Len(result.issues) = 1
         /\ result.issues[1].type = "error"
         /\ result.collections = <<>>
         /\ result.traits = <<>>
         /\ result.tokenIndexes = <<>>
         /\ result.data = <<>>

\* a parse failure on an analyzer whose previous call left issues behind
C1_Witness ==
  /\ Len(history) = 2
  /\ ~code.parses
  /\ history[1].result.issues # <<>>
  /\ history[1].result.collections # <<>>

\* ---- C2
LaterDuplicate(i) ==
  /\ i \in NodeIdx("trait")
  /\ \E j \in NodeIdx("trait") : j < i /\ TripleOf(Body[j]) = TripleOf(Body[i])

FirstOccurrence(i) ==
  CHOOSE j \in NodeIdx("trait") :
    /\ TripleOf(Body[j]) = TripleOf(Body[i])
    /\ \A h \in NodeIdx("trait") : TripleOf(Body[h]) = TripleOf(Body[i]) => j <= h

\* every declared triple is in traits exactly once, as its first occurrence,
\* and once in data
OneTraitPerTriple ==
  \A i \in NodeIdx("trait") :
    LET hits == {k \in 1..Len(result.traits) : TraitTriple(result.traits[k]) = TripleOf(Body[i])}
        inData == {<<d, k>> \in (1..Len(result.data)) \X (1..Len(Body)) :
                     /\ k <= Len(result.data[d].traits)
                     /\ TraitTriple(result.data[d].traits[k]) = TripleOf(Body[i])}
    IN  /\ Cardinality(hits) = 1
        /\ \A k \in hits : result.traits[k].sourceLocation = FirstOccurrence(i)
        /\ Cardinality(inData) = 1

\* C2 as stated: N >= 1 trait calls with the same (collection, key, type) yield
\* exactly one Trait, the first occurrence, and the suppressed duplicates add
\* nothing to the result.
C2_AsStated ==
  (Called /\ code.parses) =>
    /\ OneTraitPerTriple
    /\ \A i \in NodeIdx("trait") : LaterDuplicate(i) => IssuesAt(i) = {}

\* C2 amended: N >= 1 trait calls with the same (collection, key, type) yield
\* exactly one Trait, the first occurrence; a suppressed duplicate adds no trait
\* and no data entry, and no issue when its key is a literal; a suppressed
\* duplicate without a literal key still records its own "missing a key" warning.
C2_DuplicateSuppression ==
  (Called /\ code.parses) =>
    /\ OneTraitPerTriple
    /\ \A i \in NodeIdx("trait") :
         LaterDuplicate(i) =>
           IF ArgValue(Body[i].arg) = JNull
             THEN /\ Cardinality(IssuesAt(i)) = 1
                  /\ \A k \in IssuesAt(i) :
                       result.issues[k] =
                         Warning(<<"Trait in collection", Body[i].name, "is missing a key">>, i)
             ELSE IssuesAt(i) = {}

\* a key-less trait call repeated, next to a call with another triple
C2_Witness ==
  /\ Called
  /\ Len(Body) = 3
  /\ \E i \in 1..3 :
       /\ LaterDuplicate(i)
       /\ ArgValue(Body[i].arg) = JNull
       /\ Cardinality(IssuesAt(i)) = 1
  /\ Len(result.traits) = 2

\* C3: every Trait and TokenIndex naming an unregistered collection is kept in
\* traits / tokenIndexes and in the data entry of that name, and a warning
\* naming the collection is recorded.
HasWarningAbout(name) ==
  \E k \in 1..Len(result.issues) :
    result.issues[k].type = "warning" /\ Mentions(result.issues[k], name)

DataEntries(name) == {d \in 1..Len(result.data) : result.data[d].collection = name}

C3_UnknownCollectionKept ==
  (Called /\ code.parses) =>
    /\ \A i \in NodeIdx("trait") :
         Body[i].name \notin DeclaredNames =>
           /\ \E k \in 1..Len(result.traits) : TraitTriple(result.traits[k]) = TripleOf(Body[i])
           /\ Cardinality(DataEntries(Body[i].name)) = 1
           /\ \A d \in DataEntries(Body[i].name) :
                \E k \in 1..Len(result.data[d].traits) :
                  TraitTriple(result.data[d].traits[k]) = TripleOf(Body[i])
           /\ \E k \in 1..Len(result.issues) :
                result.issues[k] =
                  Warning(<<"Trait references non-existent collection", Body[i].name>>,
                          FirstOccurrence(i))
    /\ \A i \in NodeIdx("useToken") :
         (/\ Body[i].inSetup
          /\ Body[i].arg.type = "Literal"
          /\ Body[i].arg.value.t = "number"
          /\ Body[i].name \notin DeclaredNames) =>
           /\ \E k \in 1..Len(result.tokenIndexes) :
                result.tokenIndexes[k] = [collection |-> Body[i].name, tokenId |-> Body[i].arg.value]
           /\ Cardinality(DataEntries(Body[i].name)) = 1
           /\ \A d \in DataEntries(Body[i].name) :
                Includes(result.data[d].tokenIndexes, Body[i].arg.value)
           /\ \E k \in 1..Len(result.issues) :
                result.issues[k] =
                  Warning(<<"Token usage references non-existent collection", Body[i].name>>, 0)
    /\ \A k \in 1..Len(result.traits) :
         result.traits[k].collection \notin DeclaredNames =>
           HasWarningAbout(result.traits[k].collection)
    /\ \A k \in 1..Len(result.tokenIndexes) :
         result.tokenIndexes[k].collection \notin DeclaredNames =>
           HasWarningAbout(result.tokenIndexes[k].collection)

\* a trait and a token usage of collection B, which is not declared
C3_Witness ==
  /\ Called
  /\ "B" \notin DeclaredNames
  /\ \E k \in 1..Len(result.traits) : result.traits[k].collection = "B"
  /\ \E k \in 1..Len(result.tokenIndexes) : result.tokenIndexes[k].collection = "B"
  /\ \E d \in 1..Len(result.data) :
       /\ result.data[d].collection = "B"
       /\ result.data[d].traits # <<>>
       /\ result.data[d].tokenIndexes # <<>>

\* C4 as stated: a TokenIndex comes only from a useToken call inside setup whose
\* first argument is a literal integer; a call outside setup, with a non-literal
\* argument, or with a literal that is not an integer never produces one.
TokenSource(i) ==
  /\ Body[i].kind = "useToken"
  /\ Body[i].inSetup
  /\ Body[i].arg.type = "Literal"
  /\ IsInteger(Body[i].arg.value)

C4_AsStated ==
  (Called /\ code.parses) =>
    /\ \A k \in 1..Len(result.tokenIndexes) :
         \E i \in 1..Len(Body) :
           /\ TokenSource(i)
           /\ result.tokenIndexes[k] = [collection |-> Body[i].name, tokenId |-> Body[i].arg.value]
    /\ Len(result.tokenIndexes) <= Cardinality({i \in 1..Len(Body) : TokenSource(i)})

\* C5 as stated: no two entries of collections have the same name.
C5_AsStated ==
  Called =>
    \A j \in 1..Len(result.collections), k \in 1..Len(result.collections) :
      j # k => result.collections[j].name # result.collections[k].name

\* C6: a FormaCollection declarator whose first argument is absent or not a
\* literal is registered with address null and records exactly one "missing an
\* address" warning; one with a literal address is registered with that address
\* and records no such warning.  (The literal null is no address: it is
\* registered like an absent argument.)
MissingAddressWarnings(i) ==
  {k \in IssuesAt(i) :
     result.issues[k] = Warning(<<"Collection", Body[i].name, "is missing an address">>, i)}

RegisteredAt(i) == {k \in 1..Len(result.collections) : result.collections[k].sourceLocation = i}

C6_MissingAddress ==
  (Called /\ code.parses) =>
    \A i \in NodeIdx("decl") :
      /\ Cardinality(RegisteredAt(i)) = 1
      /\ \A k \in RegisteredAt(i) :
           /\ result.collections[k].name = Body[i].name
           /\ result.collections[k].address = ArgValue(Body[i].arg)
      /\ IF ArgValue(Body[i].arg) = JNull
           THEN Cardinality(MissingAddressWarnings(i)) = 1 /\ IssuesAt(i) = MissingAddressWarnings(i)
           ELSE IssuesAt(i) = {}

\* end-to-end example B next to a declarator with an address and one with a
\* non-literal argument
C6_Witness ==
  /\ Called
  /\ \E i \in NodeIdx("decl") : Body[i].arg = NoArg /\ Cardinality(MissingAddressWarnings(i)) = 1
  /\ \E i \in NodeIdx("decl") : Body[i].arg = Ident /\ Cardinality(MissingAddressWarnings(i)) = 1
  /\ \E i \in NodeIdx("decl") : Body[i].arg = Lit(JStr("0xAA")) /\ IssuesAt(i) = {}

\* C7: a well-formed source (every FormaCollection call has a literal address,
\* every trait call a literal key and a registered collection, every useToken
\* call inside setup a literal integer argument and a registered collection)
\* produces no issues, and collections, traits and tokenIndexes list the
\* declared entities in source order.
WellFormed ==
  /\ code.parses
  /\ \A i \in NodeIdx("decl") : ArgValue(Body[i].arg) # JNull
  /\ \A i \in NodeIdx("trait") :
       ArgValue(Body[i].arg) # JNull /\ Body[i].name \in DeclaredNames
  /\ \A i \in NodeIdx("useToken") :
       Body[i].inSetup => TokenSource(i) /\ Body[i].name \in DeclaredNames

DeclaredCollections ==
  LET at == Ascending(NodeIdx("decl"))
  IN  [k \in 1..Len(at) |->
         [name |-> Body[at[k]].name, address |-> Body[at[k]].arg.value, sourceLocation |-> at[k]]]

DeclaredTraits ==
  LET at == Ascending({i \in NodeIdx("trait") : ~LaterDuplicate(i)})
  IN  [k \in 1..Len(at) |->
         [collection |-> Body[at[k]].name, key |-> Body[at[k]].arg.value,
          type |-> Body[at[k]].ttype, sourceLocation |-> at[k]]]

DeclaredTokenIndexes ==
  LET at == Ascending({i \in NodeIdx("useToken") : Body[i].inSetup})
  IN  [k \in 1..Len(at) |-> [collection |-> Body[at[k]].name, tokenId |-> Body[at[k]].arg.value]]

C7_WellFormedNoIssues ==
  (Called /\ WellFormed) =>
    /\ result.issues = <<>>
    /\ result.collections = DeclaredCollections
    /\ result.traits = DeclaredTraits
    /\ result.tokenIndexes = DeclaredTokenIndexes

\* end-to-end example A
C7_Witness ==
  /\ Called
  /\ Body = <<DeclNode("A", Lit(JStr("0xAA"))), TraitNode("A", Lit(JStr("Color")), "asString"),
              UseTokenNode("A", Lit(JNum(3, 1)), TRUE)>>
  /\ result.collections = <<[name |-> "A", address |-> JStr("0xAA"), sourceLocation |-> 1]>>
  /\ result.traits = <<[collection |-> "A", key |-> JStr("Color"), type |-> "asString",
                        sourceLocation |-> 2]>>
  /\ result.tokenIndexes = <<[collection |-> "A", tokenId |-> JNum(3, 1)]>>
  /\ result.issues = <<>>

\* C8: every analyze call returns what analyzeCode returns for the same source
\* on a new analyzer, whatever the analyzer analysed before; two calls on the
\* same source return equal results.
C8_Deterministic ==
  /\ \A k \in 1..Len(history) : history[k].result = analyzeCode(history[k].code).result
  /\ \A j \in 1..Len(history), k \in 1..Len(history) :
       history[j].code = history[k].code => history[j].result = history[k].result
  /\ Called => Fields = analyzeCode(code).st

\* a second call on an analyzer whose first call, on another source, left
\* collections, traits, token indexes and issues behind
C8_Witness ==
  /\ Len(history) = 2
  /\ history[1].code # history[2].code
  /\ history[1].result.issues # <<>>
  /\ history[2].result.issues = <<>>
  /\ history[2].code.parses
  /\ history[2].code.body # <<>>

\* ---- vocabulary of the claims about the metadata handler
Methods == <<"getTokenMetadata", "tokenURI", "uri">>
ClaimedSourceType == <<"forma", "erc721", "opensea">>
AllMethods == {Methods[k] : k \in 1..3}

\* the contract methods called for collection i, in call order
MethodCalls(i) ==
  LET reads == SelectSeq(log, LAMBDA e : e.collection = i /\ e.call # "http")
  IN  [k \in 1..Len(reads) |-> reads[k].call]

HttpRequests(i) == {k \in 1..Len(log) : log[k].collection = i /\ log[k].call = "http"}

IsPrefix(a, b) == Len(a) <= Len(b) /\ \A k \in 1..Len(a) : a[k] = b[k]

\* C9: fetchTokenMetadata calls getTokenMetadata, tokenURI, uri in this order;
\* a method is called only after every earlier one has failed, none is called
\* after one has succeeded, and a successful result's sourceType is forma,
\* erc721 or opensea according to the method that succeeded.
C9_StrictOrder ==
  \A i \in 1..Len(input) :
    LET calls == MethodCalls(i)
    IN  /\ IsPrefix(calls, Methods)
        /\ \A k \in 1..Len(calls) : \A j \in 1..(k - 1) : Methods[j] \in failed[i]
        /\ failed[i] \subseteq {calls[k] : k \in 1..Len(calls)}
        /\ \A k \in HttpRequests(i) :
             /\ k > 1
             /\ log[k - 1].collection = i
             /\ log[k - 1].call \in {"tokenURI", "uri"}
        /\ \A f \in 1..Len(fetched) :
             fetched[f].collection = i =>
               IF fetched[f].result.success
                 THEN \E k \in 1..3 :
                        /\ Len(calls) = k
                        /\ fetched[f].result.sourceType = ClaimedSourceType[k]
                        /\ failed[i] = {Methods[j] : j \in 1..(k - 1)}
                 ELSE /\ calls = Methods
                      /\ failed[i] = AllMethods
                      /\ fetched[f].result.sourceType = "unknown"

\* getTokenMetadata failed, tokenURI's document could not be fetched, and uri's
\* document was fetched
C9_Witness ==
  \E f \in 1..Len(fetched) :
    /\ fetched[f].result.success
    /\ fetched[f].result.sourceType = "opensea"
    /\ Cardinality(HttpRequests(fetched[f].collection)) = 2
    /\ rpc = "done"

\* C10: no failure of a contract read, of an HTTP request, of a payload or of a
\* URI scheme makes generateFormaCollectionCode(s) reject; a collection costs at
\* most five reads and requests, and the call resolves with one result per
\* collection; a collection whose three methods all failed has success = false
\* and an error message.
C10_NeverRejects ==
  /\ ~rejected
  /\ rpc # "rejected"
  /\ \A i \in 1..Len(input) : Cardinality({k \in 1..Len(log) : log[k].collection = i}) <= 5
  /\ rpc = "done" =>
       /\ Len(returned.collections) = Len(input)
       /\ \A i \in 1..Len(input) : returned.collections[i].collectionName = input[i].collection
  /\ \A i \in 1..Len(results) :
       failed[i] = AllMethods => ~results[i].success /\ results[i].error # <<>>

\* one collection exhausted its methods on failing HTTP requests, another one's
\* metadata made extractTraitValues throw
C10_Witness ==
  /\ rpc = "done"
  /\ \E i \in 1..Len(results) :
       /\ failed[i] = AllMethods
       /\ Cardinality(HttpRequests(i)) = 2
       /\ ~returned.collections[i].success
  /\ \E i \in 1..Len(results) :
       /\ ~returned.collections[i].success
       /\ returned.collections[i].error[1] = "Error generating collection code"

\* ---- vocabulary of the claims about generated code
\* the text a default value is emitted as
DefaultText(type) ==
  IF type = "asString" THEN <<"'", "'">> ELSE <<"0">>

\* lines of a fragment before the traits, per trait, and after the traits
HeadLines == 3
LinesPerTrait == 5
TailLines == 9

\* the fragment opens and closes the object of the collection and has one block
\* of lines per declared trait
CompleteFragment(fragment, collection) ==
  /\ Len(fragment) = HeadLines + LinesPerTrait * Len(collection.traits) + TailLines
  /\ fragment[1] = Line("const ${collectionName} = {", collection.collection, <<>>)
  /\ fragment[Len(fragment)] = Line("};", "", <<>>)
  /\ \A k \in 1..Len(collection.traits) :
       /\ fragment[HeadLines + LinesPerTrait * (k - 1) + 2].word = collection.traits[k].type
       /\ fragment[HeadLines + LinesPerTrait * (k - 1) + 3].text = "return ${formattedValue};"

\* the characters the fragment returns for the k-th declared trait
Emitted(fragment, k) == fragment[HeadLines + LinesPerTrait * (k - 1) + 3].chars

\* C11: a collection whose address is null, undefined or empty gets its result
\* without any contract read or HTTP request; the result has success = false
\* and the error "Collection has no address", and its code is a complete
\* fragment that returns, for every declared trait, the default of its type.
C11_NoAddressDefaults ==
  \A i \in 1..Len(results) :
    ~Truthy(input[i].address) =>
      /\ \A k \in 1..Len(log) : log[k].collection # i
      /\ ~results[i].success
      /\ results[i].error = <<"Collection has no address">>
      /\ results[i].traitValues = <<>>
      /\ CompleteFragment(results[i].code, input[i])
      /\ \A k \in 1..Len(input[i].traits) :
           Emitted(results[i].code, k) = DefaultText(input[i].traits[k].type)

\* a collection without address that declares an asFloat, an asInt and an
\* asString trait has been resolved
C11_Witness ==
  /\ rpc = "done"
  /\ \E i \in 1..Len(results) :
       /\ input[i].address = JUndefined
       /\ {input[i].traits[k].type : k \in 1..Len(input[i].traits)}
            = {"asFloat", "asInt", "asString"}
       /\ ~returned.collections[i].success

\* ---- vocabulary of the claims about formatValue
Digits == {"0", "1", "2", "3", "4", "5", "6", "7", "8", "9"}

\* chars begins, after white space and signs, with a digit (for a float: or
\* with a decimal point and a digit, or with the word Infinity)
BeginsWithNumeral(chars, float) ==
  \E k \in 1..Len(chars) :
    /\ \A j \in 1..(k - 1) : chars[j] \in WhiteSpace \cup {"+", "-"}
    /\ \/ chars[k] \in Digits
       \/ float /\ chars[k] = "." /\ k < Len(chars) /\ chars[k + 1] \in Digits
       \/ float /\ chars[k] = "I"

\* v is no number and no text that begins with a numeral
NonNumeric(v, float) ==
  \/ v.t \in {"null", "undefined", "boolean"}
  \/ v.t = "number" /\ v.d = 0 /\ v.n = 0
  \/ v.t \in {"string", "object"} /\ ~BeginsWithNumeral(v.chars, float)

IsNumber(v) == v.t = "number" /\ ~(v.d = 0 /\ v.n = 0)

\* C12 as stated: formatValue never fails; as asInt it yields an integer, 0 for a
\* non-numeric value; as asFloat a number, 0 for a non-numeric value; as
\* asString a string.
C12_AsStated ==
  formatted # <<>> /\ traitType \in {"asInt", "asFloat", "asString"} =>
    LET r == formatted[1]
    IN  /\ ~r.threw
        /\ traitType = "asInt" =>
             /\ IsNumber(r.value) /\ r.value.d = 1
             /\ NonNumeric(value, FALSE) => r.value = VNum(0, 1)
        /\ traitType = "asFloat" =>
             /\ IsNumber(r.value)
             /\ NonNumeric(value, TRUE) => r.value = VNum(0, 1)
        /\ traitType = "asString" => r.value.t = "string"

\* ---- vocabulary of the claim about per-trait values
\* the value the k-th declared trait of collection i is to get from the
\* metadata of its result: the default of its type when its key is not in the
\* extracted map, else the extracted value coerced by its type
OwnValue(i, k) ==
  LET trait == input[i].traits[k]
      extractedValue == Lookup(extractTraitValues(results[i].metadata).values, KeyOf(trait))
  IN  IF ~extractedValue.found \/ extractedValue.value.t = "undefined"
        THEN getDefaultValue(trait.type)
        ELSE formatValue(extractedValue.value, trait.type).value

\* the text a value is emitted as for a trait of the type
Rendered(v, type) ==
  IF type = "asString" THEN <<"'">> \o EscapeQuotes(ToStringOf(v).chars) \o <<"'">>
  ELSE ToStringOf(v).chars

\* C13 as stated: in a successful result every declared trait, whatever other
\* traits share its key, has its own value recorded under its type and emitted
\* in the code.
C13_AsStated ==
  \A i \in 1..Len(results) :
    results[i].success =>
      \A k \in 1..Len(input[i].traits) :
        LET trait == input[i].traits[k]
            recorded == Lookup(results[i].traitValues, KeyOf(trait))
        IN  /\ recorded.found
            /\ recorded.value.traitType = trait.type
            /\ recorded.value.formatted = OwnValue(i, k)
            /\ Emitted(results[i].code, k) = Rendered(OwnValue(i, k), trait.type)

\* ---- vocabulary of the claim about the batch
\* where the code of the i-th result begins in the combined code, less one
RECURSIVE CodeOffset(_)
CodeOffset(i) == IF i = 1 THEN 0 ELSE CodeOffset(i - 1) + Len(results[i - 1].code) + 1

\* C14: collections are resolved one at a time in input order: a read or
\* request for a collection is made only when all collections before it have
\* their result; results[i] is the result for input[i]; the counters count the
\* results by success; the value resolved has the results in that order, their
\* codes joined by a line break in that order, and the two counters, which add
\* up to the number of input collections.
C14_Sequential ==
  /\ \A k \in 1..Len(log) : log[k].collection <= Len(results) + 1
  /\ \A k \in 1..(Len(log) - 1) : log[k].collection <= log[k + 1].collection
  /\ Len(results) <= Len(input)
  /\ \A i \in 1..Len(results) :
       /\ results[i].collectionName = input[i].collection
       /\ results[i].tokenId = chooseTokenId(input[i])
       /\ results[i].code[1].word = input[i].collection
  /\ successCount = Cardinality({i \in 1..Len(results) : results[i].success})
  /\ successCount + failureCount = Len(results)
  /\ rpc = "done" =>
       /\ returned.collections = results
       /\ Len(results) = Len(input)
       /\ returned.successCount = Cardinality({i \in 1..Len(input) : results[i].success})
       /\ returned.successCount + returned.failureCount = Len(input)
       /\ Len(returned.combinedCode)
            = IF results = <<>> THEN 0
              ELSE CodeOffset(Len(results)) + Len(results[Len(results)].code)
       /\ \A i \in 1..Len(results) :
            /\ \A l \in 1..Len(results[i].code) :
                 returned.combinedCode[CodeOffset(i) + l] = results[i].code[l]
            /\ i > 1 => returned.combinedCode[CodeOffset(i)] = Line("", "", <<>>)

\* a call with two collections has resolved, one succeeded after reads and one
\* failed after reads
C14_Witness ==
  /\ rpc = "done"
  /\ Len(input) = 2
  /\ returned.successCount = 1
  /\ returned.failureCount = 1
  /\ \A i \in 1..2 : \E k \in 1..Len(log) : log[k].collection = i

\* ---- vocabulary of the claims about the generator's fragments
\* the collections of the argument that count as addressed, in input order
Addressed(counts(_)) == SelectSeq(argument.items, counts)

\* the fragment a method is to return for the addressed collections cs: one
\* element per collection, in order, the index constants numbered from 0
ElementFor(method, cs, k) ==
  CASE method = "generateCollectionAddresses" ->
         <<"address private constant ">> \o cs[k].name \o <<" = ">> \o cs[k].address.text
           \o <<";">>
    [] method = "generateCollectionIndexes" ->
         <<"uint256 private constant ">> \o cs[k].name \o <<"_INDEX = ">> \o NatDigits(k - 1)
           \o <<";">>
    [] method = "generateTokenIdMapping" ->
         <<"uint256 ", "tokenId_">> \o _formatName(cs[k].name) \o <<" = _tokenIds[">>
           \o cs[k].name \o <<"_INDEX];">>
    [] method = "generateOwnershipChecks" ->
         <<"require(IERC721(">> \o cs[k].name \o <<").ownerOf(", "tokenId_">>
           \o _formatName(cs[k].name) \o <<") == _msgSender(), \"Not the owner of required ">>
           \o _formatName(cs[k].name) \o <<"\");">>
    [] method = "generateFunctionParameters" ->
         <<"uint256 ", "tokenId_">> \o _formatName(cs[k].name)

AddressDependent ==
  {"generateCollectionAddresses", "generateCollectionIndexes", "generateTokenIdMapping",
   "generateOwnershipChecks", "generateFunctionParameters"}

FragmentFor(method, cs) ==
  Join([k \in 1..Len(cs) |-> ElementFor(method, cs, k)],
       IF method = "generateFunctionParameters" THEN <<", ">> ELSE <<"\n">>, 1)

\* the TraitDatas with their addresses taken away
Unaddressed(traitData) ==
  [k \in 1..Len(traitData) |-> [traitData[k] EXCEPT !.address = NoAddress]]

\* the address-dependent methods take the collections counted by counts, and
\* trait registration does not look at addresses
FragmentsFollow(counts(_)) ==
  /\ output.method \in AddressDependent =>
       output.text = FragmentFor(output.method, Addressed(counts))
  /\ output.method = "generateTraitRegistration" =>
       output.text = generateTraitRegistration(Unaddressed(argument.items))

\* C15 as stated: the address-dependent fragments have one element for every
\* collection whose address is not null, in input order, index constants
\* numbered from 0, parameters without a trailing separator; trait registration
\* is the same with and without addresses.
C15_AsStated == FragmentsFollow(LAMBDA c : ~c.address.isNull)

\* the lines of a text: the runs of lexemes between line breaks
RECURSIVE LinesFrom(_, _, _)
LinesFrom(text, k, line) ==
  IF k > Len(text) THEN <<line>>
  ELSE IF text[k] = "\n" THEN <<line>> \o LinesFrom(text, k + 1, <<>>)
  ELSE LinesFrom(text, k + 1, Append(line, text[k]))
LinesOf(text) == IF text = <<>> THEN <<>> ELSE LinesFrom(text, 1, <<>>)

\* the number of traits of the TraitDatas before the i-th
RECURSIVE TraitsBefore(_, _)
TraitsBefore(traitData, i) ==
  IF i = 1 THEN 0 ELSE TraitsBefore(traitData, i - 1) + Len(traitData[i - 1].traits)

BeginsWith(line, prefix) == Len(line) >= Len(prefix) /\ SubSeq(line, 1, Len(prefix)) = prefix

\* C16: the text generateTraitRegistration returns has, line by line, first the
\* registration statement of every trait, by TraitData and then by trait, each
\* naming its collection and type, and then one size statement per TraitData
\* in the same order, giving the number of that TraitData's registrations; no
\* TraitData is left out for lacking an address.
C16_TwoPart ==
  output.method = "generateTraitRegistration" =>
    LET traitData == argument.items
        lines == LinesOf(output.text)
        registrations == TraitsBefore(traitData, Len(traitData) + 1)
    IN  /\ Len(lines) = registrations + Len(traitData)
        /\ \A i \in 1..Len(traitData) :
             /\ \A j \in 1..Len(traitData[i].traits) :
                  /\ BeginsWith(lines[TraitsBefore(traitData, i) + j],
                                <<"_traitRegistry[">> \o traitData[i].collection
                                  \o <<"_INDEX].push(TraitRegistry(\"",
                                       traitData[i].traits[j].type, "\", \"">>)
                  /\ lines[TraitsBefore(traitData, i) + j][Len(lines[TraitsBefore(traitData, i) + j])]
                       = "\"));"
             /\ lines[registrations + i]
                  = <<"_traitRegistrySize[">> \o traitData[i].collection \o <<"_INDEX] = ">>
                      \o NatDigits(Len(traitData[i].traits)) \o <<";">>

\* generateTraitRegistration was given an addressed collection with two traits
\* followed by an unaddressed collection with one
C16_Witness ==
  /\ output.method = "generateTraitRegistration"
  /\ Len(argument.items) = 2
  /\ Len(argument.items[1].traits) = 2
  /\ argument.items[2].address = NoAddress
  /\ Len(argument.items[2].traits) = 1
  /\ Len(LinesOf(output.text)) = 5

\* ---- vocabulary of the claim about escaping
\* a quoted string literal decoded from position k on: a backslash stands with
\* the character after it for that character, or for a line break before n
RECURSIVE Unescaped(_, _)
Unescaped(text, k) ==
  IF k > Len(text) THEN <<>>
  ELSE IF text[k] = "\\" /\ k < Len(text)
    THEN <<IF text[k + 1] = "n" THEN "\n" ELSE text[k + 1]>> \o Unescaped(text, k + 2)
    ELSE <<text[k]>> \o Unescaped(text, k + 1)

\* the number of backslashes that stand directly before position k
RECURSIVE BackslashesBefore(_, _)
BackslashesBefore(text, k) ==
  IF k > 1 /\ text[k - 1] = "\\" THEN 1 + BackslashesBefore(text, k - 1) ELSE 0

\* C17: the escaped text, decoded as a quoted string literal, is the original
\* text; it holds no line break, every double quote in it is escaped, and it
\* does not end inside an escape.
C17_RoundTrip ==
  output.method = "_escapeString" =>
    /\ Unescaped(output.text, 1) = argument.items
    /\ \A k \in 1..Len(output.text) :
         /\ output.text[k] # "\n"
         /\ output.text[k] = "\"" => BackslashesBefore(output.text, k) % 2 = 1
    /\ BackslashesBefore(output.text, Len(output.text) + 1) % 2 = 0

\* a text with a backslash before an n, a double quote and a line break has
\* been escaped
C17_Witness ==
  /\ output.method = "_escapeString"
  /\ argument.items = <<"\\", "n", "\"", "\n">>
  /\ output.text = <<"\\", "\\", "n", "\\", "\"", "\\", "n">>

\* ---- C18
\* the fragment the substitutions hold for a placeholder, <<>> when they name
\* no such placeholder
FragmentOf(substitutions, placeholder) ==
  LET named == {k \in 1..Len(substitutions) : substitutions[k].placeholder = placeholder}
  IN  IF named = {} THEN <<>>
      ELSE substitutions[CHOOSE k \in named : \A j \in named : k <= j].text

Placeholders(substitutions) ==
  {substitutions[k].placeholder : k \in 1..Len(substitutions)}

\* one linear scan of the template from position k on: a placeholder gives
\* way to its fragment as it is, everything else is copied
RECURSIVE SinglePass(_, _, _)
SinglePass(template, substitutions, k) ==
  IF k > Len(template) THEN <<>>
  ELSE (IF template[k] \in Placeholders(substitutions)
        THEN FragmentOf(substitutions, template[k])
        ELSE <<template[k]>>)
       \o SinglePass(template, substitutions, k + 1)

\* C18: the output of generateSolidityContract is the base template with each
\* placeholder replaced once by its own fragment, the fragment inserted as it
\* is: no placeholder of the template is left, and no inserted text is scanned
\* or altered by the substitution of another placeholder.
C18_AsStated ==
  output.method = "generateSolidityContract"
    => output.text = SinglePass(templateSolidity,
                                Substitutions(argument.items, argument.items.chunks), 1)

\* ---- C19
\* the useToken calls inside setup whose first argument is no numeric literal
NonNumericCalls ==
  {i \in NodeIdx("useToken") :
     /\ Body[i].inSetup
     /\ ~(Body[i].arg.type = "Literal" /\ Body[i].arg.value.t = "number")}

NumericCalls ==
  {i \in NodeIdx("useToken") :
     Body[i].inSetup /\ Body[i].arg.type = "Literal" /\ Body[i].arg.value.t = "number"}

NonNumericWarning(i) ==
  Warning(<<"useToken for collection", Body[i].name, "has non-numeric token ID">>, i)

\* C19 as stated: a useToken call inside setup whose argument is not a literal
\* integer adds no TokenIndex and no issue of its own.
C19_AsStated ==
  (Called /\ code.parses) =>
    /\ \A i \in NodeIdx("useToken") :
         (Body[i].inSetup /\ ~(Body[i].arg.type = "Literal" /\ IsInteger(Body[i].arg.value)))
           => IssuesAt(i) = {}
    /\ Len(result.tokenIndexes)
         = Cardinality({i \in NodeIdx("useToken") :
                          /\ Body[i].inSetup
                          /\ Body[i].arg.type = "Literal"
                          /\ IsInteger(Body[i].arg.value)})

\* C19 (amended): a useToken call inside setup whose first argument is present
\* and is no numeric literal adds no TokenIndex and records exactly one warning
\* "has non-numeric token ID" at its place, besides the warning for a collection
\* that does not exist; a call without arguments adds no TokenIndex and no issue.
C19_NonNumericWarned ==
  (Called /\ code.parses) =>
    /\ \A i \in NonNumericCalls :
         IF Body[i].arg.type = "none" THEN IssuesAt(i) = {}
         ELSE /\ Cardinality({k \in IssuesAt(i) : result.issues[k] = NonNumericWarning(i)}) = 1
              /\ \A k \in IssuesAt(i) :
                   \/ result.issues[k] = NonNumericWarning(i)
                   \/ /\ Body[i].name \notin DeclaredNames
                      /\ result.issues[k]
                           = Warning(<<"useToken references non-existent collection",
                                       Body[i].name>>, i)
    /\ Len(result.tokenIndexes) = Cardinality(NumericCalls)

\* setup calls useToken with an identifier and with a numeric literal: the
\* first is warned about, the second alone is recorded
C19_Witness ==
  /\ Called
  /\ code.parses
  /\ \E i \in NonNumericCalls :
       /\ Body[i].arg.type = "Identifier"
       /\ \E k \in IssuesAt(i) : result.issues[k] = NonNumericWarning(i)
  /\ NumericCalls # {}
  /\ Len(result.tokenIndexes) = Cardinality(NumericCalls)

\* ---- C20
PairOf(i) == [collection |-> Body[i].name, tokenId |-> Body[i].arg.value]

\* the recorded useToken calls that no earlier recorded call anticipates
FirstUses == {i \in NumericCalls : \A j \in NumericCalls : j < i => PairOf(j) # PairOf(i)}

\* C20 as stated: the result's tokenIndexes holds a (collection, tokenId) pair
\* once however often setup repeats the call, the distinct pairs standing in
\* the order of their first appearance.
C20_AsStated ==
  (Called /\ code.parses) =>
    /\ \A j \in 1..Len(result.tokenIndexes), k \in 1..Len(result.tokenIndexes) :
         j # k => result.tokenIndexes[j] # result.tokenIndexes[k]
    /\ result.tokenIndexes
         = [k \in 1..Cardinality(FirstUses) |-> PairOf(Ascending(FirstUses)[k])]

\* ---- C21
\* the names in traits or in tokenIndexes
GroupedNames ==
  {result.traits[k].collection : k \in 1..Len(result.traits)}
    \cup {result.tokenIndexes[k].collection : k \in 1..Len(result.tokenIndexes)}

\* the members of seq that satisfy Test, in their order
TraitsOf(name) == SelectSeq(result.traits, LAMBDA t : t.collection = name)

\* the token ids of a collection, each at its first appearance
FirstIdsOf(name) ==
  LET at == Ascending({k \in 1..Len(result.tokenIndexes) :
                         /\ result.tokenIndexes[k].collection = name
                         /\ \A j \in 1..(k - 1) :
                              result.tokenIndexes[j] # result.tokenIndexes[k]})
  IN  [k \in 1..Len(at) |-> result.tokenIndexes[at[k]].tokenId]

Registered(name) == {k \in 1..Len(result.collections) : result.collections[k].name = name}

\* C21 as stated: data has exactly one TraitData per name occurring in traits
\* or tokenIndexes and none for any other name; its traits are the collection's
\* traits in insertion order, its tokenIndexes the collection's token ids
\* without duplicates in order of first appearance, and its address the
\* registered collection's address, or null when the name is unregistered.
C21_AsStated ==
  Called =>
    /\ \A name \in GroupedNames : Cardinality(DataEntries(name)) = 1
    /\ \A d \in 1..Len(result.data) :
         LET name == result.data[d].collection
         IN  /\ name \in GroupedNames
             /\ result.data[d].traits = TraitsOf(name)
             /\ result.data[d].tokenIndexes = FirstIdsOf(name)
             /\ IF Registered(name) = {} THEN result.data[d].address = JNull
                ELSE \E k \in Registered(name) :
                       result.data[d].address = result.collections[k].address

\* ---- C22
\* the token id a collection is to be resolved with
FirstOrOne(collection) ==
  IF collection.tokenIndexes = <<>> THEN JNum(1, 1) ELSE Head(collection.tokenIndexes)

\* C22: the tokenId of a collection's result is the first element of its
\* tokenIndexes when there is one (0 included) and 1 otherwise, and every
\* contract read made for the collection is given that id.
C22_TokenId ==
  /\ \A i \in 1..Len(results) : results[i].tokenId = FirstOrOne(input[i])
  /\ \A k \in 1..Len(log) :
       log[k].call # "http" => log[k].tokenId = FirstOrOne(input[log[k].collection])

\* a collection whose first token id is 0 has been read with all three methods
\* and resolved
C22_Witness ==
  /\ rpc = "done"
  /\ Len(input) = 1
  /\ input[1].tokenIndexes # <<>>
  /\ Head(input[1].tokenIndexes) = JNum(0, 1)
  /\ results[1].tokenId = JNum(0, 1)
  /\ \A m \in AllMethods : \E k \in 1..Len(log) : log[k].call = m /\ log[k].tokenId = JNum(0, 1)

\* ---- C23
\* the field the values are taken from: attributes, or else traits
ChosenField ==
  IF resolved.attributes.shape # "absent" THEN resolved.attributes ELSE resolved.traits

\* the name of an array element: its trait_type, or else its name
NameOf(item) == IF Truthy(item.trait_type) THEN item.trait_type ELSE item.name

\* the pairs of the chosen field, a later pair of a name replacing an earlier
PairsOfField ==
  LET items == ChosenField.items
      named == IF ChosenField.shape = "array"
                 THEN {k \in 1..Len(items) : Truthy(NameOf(items[k]))}
                 ELSE 1..Len(items)
      name(k) == IF ChosenField.shape = "array" THEN NameOf(items[k]).s
                 ELSE items[k].trait_type.s
  IN  {[key |-> name(k), value |-> items[k].value] :
         k \in {h \in named : \A j \in named : j > h => name(j) # name(h)}}

\* the top-level fields outside the fixed list
PairsOfTopLevel ==
  LET entries == TopLevelEntries(resolved)
  IN  {entries[k] : k \in {h \in 1..Len(entries) :
                             entries[h].key \notin {"name", "description", "image",
                                                    "external_url", "animation_url"}}}

ExtractedPairs == {extraction[1].values[k] : k \in 1..Len(extraction[1].values)}

\* C23: for metadata whose chosen field holds no null element, the map is
\* built from the pairs of the array attributes (or else traits), or from the
\* entries of that field when it is a flat object; the top-level fields are
\* used only when this gave no value, and then none of name, description,
\* image, external_url, animation_url is among them.
C23_Priority ==
  (extraction # <<>> /\ MTruthy(resolved) /\ ~extraction[1].threw) =>
    /\ Cardinality(ExtractedPairs) = Len(extraction[1].values)
    /\ \A p \in ExtractedPairs, q \in ExtractedPairs : p.key = q.key => p = q
    /\ IF PairsOfField # {} THEN ExtractedPairs = PairsOfField
       ELSE ExtractedPairs = PairsOfTopLevel

\* attributes is an empty array while traits holds a pair: the values come from
\* the top level, attributes and traits included, name left out
C23_Witness ==
  /\ extraction # <<>>
  /\ ~extraction[1].threw
  /\ resolved.attributes = ArrayField(<<>>)
  /\ resolved.traits.shape = "array"
  /\ resolved.traits.items # <<>>
  /\ resolved.top = <<[key |-> "name", value |-> VStr(<<"x">>)]>>
  /\ {p.key : p \in ExtractedPairs} = {"attributes", "traits"}

\* ---- C24
\* the constant of chunk number i (from 0), and its identifier
ChunkConstant(chunk, i) ==
  <<"string private constant CHUNK_">> \o NatDigits(i) \o <<" = \"">> \o _escapeString(chunk)
    \o <<"\";">>
ChunkIdentifier(i) == <<"CHUNK_">> \o NatDigits(i)

\* texts[k..] with the separator between them
RECURSIVE Separated(_, _, _)
Separated(texts, separator, k) ==
  IF k > Len(texts) THEN <<>>
  ELSE IF k = Len(texts) THEN texts[k]
  ELSE texts[k] \o <<separator>> \o Separated(texts, separator, k + 1)

\* C24 as stated: generateP5Storage emits the constants CHUNK_0..CHUNK_(n-1) in
\* chunk order, the literal of CHUNK_i being the escaped text of chunk i
\* whatever the chunk holds, followed by CHUNK_COUNT = n; generateP5Ls emits
\* the identifiers CHUNK_0..CHUNK_(n-1) joined by commas, none trailing.
C24_AsStated ==
  LET chunks == argument.items
      n == Len(chunks)
  IN  /\ output.method = "generateP5Storage" =>
           output.text
             = Separated([k \in 1..n |-> ChunkConstant(chunks[k], k - 1)], "\n", 1)
                 \o <<"\n\nuint256 private constant CHUNK_COUNT = ">> \o NatDigits(n) \o <<";">>
      /\ output.method = "generateP5Ls" =>
           output.text = Separated([k \in 1..n |-> ChunkIdentifier(k - 1)], ", ", 1)

\* ---- C25
\* fetchTokenMetadata has returned metadata for the i-th collection
Retrieved(i) ==
  \E f \in 1..Len(fetched) :
    /\ fetched[f].collection = i
    /\ fetched[f].result.success
    /\ MTruthy(fetched[f].result.metadata)

\* C25 as stated: every result carries a code fragment with one entry per
\* declared trait; success is true exactly when metadata was retrieved, and
\* then metadata is not null, metadataSource is forma, erc721 or opensea and
\* error is unset; success false implies metadata null, metadataSource unknown,
\* traitValues empty and error set.
C25_AsStated ==
  \A i \in 1..Len(results) :
    /\ CompleteFragment(results[i].code, input[i])
    /\ results[i].success <=> Retrieved(i)
    /\ results[i].success =>
         /\ results[i].metadata # MNull
         /\ results[i].metadataSource \in {"forma", "erc721", "opensea"}
         /\ results[i].error = <<>>
    /\ ~results[i].success =>
         /\ results[i].metadata = MNull
         /\ results[i].metadataSource = "unknown"
         /\ results[i].traitValues = <<>>
         /\ results[i].error # <<>>

\* ---- C26
\* part occurs in text as a run of consecutive lexemes
Contains(text, part) ==
  \E p \in 0..(Len(text) - Len(part)) : SubSeq(text, p + 1, p + Len(part)) = part

\* the collection names of the analysis given to generateSolidityContract
NamesOfAnalysis ==
  {argument.items.collections[k].name : k \in 1..Len(argument.items.collections)}
    \cup {argument.items.data[k].collection : k \in 1..Len(argument.items.data)}

\* the contract declares the address constant, the index constant, the token
\* id and the metadata variable of the collection called name
DeclaredIn(text, name) ==
  /\ Contains(text, <<"address private constant ">> \o name \o <<" = ">>)
  /\ Contains(text, <<"uint256 private constant ">> \o name \o <<"_INDEX = ">>)
  /\ Contains(text, <<"uint256 ", "tokenId_">> \o _formatName(name) \o <<" = _tokenIds[">>)
  /\ Contains(text, <<"string memory ", "metadata_">> \o _formatName(name) \o <<" = ">>)

\* the trait registration, the JS field, the base64 field or the attribute
\* assembly of the contract mentions the collection called name
ReferencedIn(text, name) ==
  \/ Contains(text, <<"_traitRegistry[">> \o name \o <<"_INDEX].push(TraitRegistry(\"">>)
  \/ Contains(text, <<"_traitRegistrySize[">> \o name \o <<"_INDEX] = ">>)
  \/ Contains(text, <<"string memory ">> \o name \o <<"_jsField = generateCollectionTraitJS(\"">>)
  \/ Contains(text, name \o <<"_jsField">>)
  \/ Contains(text, <<"_metadata\", ", "metadata_">> \o _formatName(name) \o <<")">>)

\* C26 as stated: every collection that the trait-registration, JS-field,
\* base64-field or attribute-assembly fragment of the assembled contract
\* mentions has its address constant, index constant, token id and metadata
\* variable declared by the other fragments.
C26_AsStated ==
  output.method = "generateSolidityContract" =>
    \A name \in NamesOfAnalysis : ReferencedIn(output.text, name) => DeclaredIn(output.text, name)

\* ---- C27
\* the first position of the lexeme in the line
PositionOf(line, lexeme) ==
  CHOOSE p \in 1..Len(line) : line[p] = lexeme /\ \A q \in 1..(p - 1) : line[q] # lexeme

\* the variable a line `<type> <variable> = <name>...` declares and the
\* collection name that follows the equals lexeme up to the closing lexeme
VariableOf(line, equals) == SubSeq(line, 2, PositionOf(line, equals) - 1)
CollectionOf(line, equals, closing) ==
  SubSeq(line, PositionOf(line, equals) + 1, PositionOf(line, closing) - 1)

\* lines written for collections of different names declare different variables
DistinctVariables(lines, equals, closing) ==
  \A i, j \in 1..Len(lines) :
    CollectionOf(lines[i], equals, closing) # CollectionOf(lines[j], equals, closing)
      => VariableOf(lines[i], equals) # VariableOf(lines[j], equals)

\* C27 as stated: in the id-mapping and the metadata-extraction fragment, two
\* addressed collections of different names never get the same derived
\* variable (tokenId_<Name>, metadata_<Name>).
C27_AsStated ==
  /\ output.method = "generateTokenIdMapping" =>
       DistinctVariables(LinesOf(output.text), " = _tokenIds[", "_INDEX];")
  /\ output.method = "generateMetadataExtraction" =>
       DistinctVariables(LinesOf(output.text), " = ", ".getTokenMetadata(")

====
